---- MODULE Spec2Model ----
(***************************************************************************)
(* Canonicalization of one declaration (src/src/can/mod.rs).               *)
(*                                                                         *)
(* canonicalize_declaration is a synchronous recursive descent.  The model *)
(* runs it as a machine with an explicit call stack: `pc`/`arg` is a       *)
(* pending call of canonicalize_expr, `pc`/`result` a value being returned *)
(* to the frame on top of `stack`.  Every arm of canonicalize_expr and     *)
(* every phase of can_defs is one action.  A panic!/unwrap()/unreachable!()*)
(* ends the run in pc = "panic".                                           *)
(*                                                                         *)
(* Regions are source spans only (never part of a semantic value) and type *)
(* variables are opaque to this phase: neither is modelled; constraints    *)
(* keep their shape (Eq / And / Let / Lookup / True) without their types.  *)
(***************************************************************************)
EXTENDS Integers, Sequences, FiniteSets, TLC

VARIABLES
    program,      \* loc_expr handed to canonicalize_declaration
    declared,     \* declared_idents handed to canonicalize_declaration
    pc,           \* "call" | "return" | "done" | "panic"
    arg,          \* the pending canonicalize_expr call: [expr, scope]
    result,       \* the value being returned: [expr, output]
    stack,        \* frames of the canonicalize_expr / can_defs calls in progress
    scopes,       \* the Scope values alive, by reference (index)
    problems,     \* env.problems
    procedures,   \* env.procedures
    panic_msg,    \* the message of the panic that ended the run
    returned,     \* history: the frame of the last can_defs call that returned
    fn_in,        \* input of the pure function under test (function specs)
    fn_out        \* its output

vars == <<program, declared, pc, arg, result, stack, scopes, problems,
          procedures, panic_msg, returned, fn_in, fn_out>>

-----------------------------------------------------------------------------
(* Bounds of the model *)

\* the longest def block canonicalized
MaxDefs == 3
\* the longest identifier list handed to sort_cyclic_idents on its own
MaxCycle == 3
\* the longest literal text drawn from the whole alphabet
MaxLit == 2
\* the most symbols one reference walk follows before it is cut off
MaxWalk == 6

-----------------------------------------------------------------------------
(* Program constants *)

home == "Main"
decl_name == "decl"
\* format!("{}${}$", home, name)
scope_prefix == <<home, "$", decl_name, "$">>

Null == [kind |-> "Null"]
None == <<>>

-----------------------------------------------------------------------------
(* Sequence helpers *)

Range(s) == {s[i] : i \in 1..Len(s)}

Reverse(s) == [i \in 1..Len(s) |-> s[Len(s) + 1 - i]]

RECURSIVE SetToSeq(_)
SetToSeq(S) ==
    IF S = {} THEN <<>>
    ELSE LET x == CHOOSE y \in S : TRUE IN <<x>> \o SetToSeq(S \ {x})

\* all orderings of a finite set, each element once
Perms(S) ==
    {s \in [1..Cardinality(S) -> S] : \A i, j \in 1..Cardinality(S) : i # j => s[i] # s[j]}

\* insert / remove on a map kept as a TLA+ function
MapInsert(m, k, v) == [x \in DOMAIN m \cup {k} |-> IF x = k THEN v ELSE m[x]]
MapRemove(m, k) == [x \in DOMAIN m \ {k} |-> m[x]]
EmptyMap == [x \in {} |-> Null]

-----------------------------------------------------------------------------
(* Ident, Symbol, Scope, References, Output *)

Unqualified(name) == [q |-> FALSE, path |-> "", name |-> name]
Qualified(path, name) == [q |-> TRUE, path |-> path, name |-> name]

\* Symbol::new(prefix, name): the flat qualified path
SymbolNew(prefix, name) == <<prefix, name>>

\* scope.symbol(name)
ScopeSymbol(scope, name) == SymbolNew(scope.prefix, name)

\* Scope::new(prefix, declared_idents)
ScopeNew(prefix, idents) == [prefix |-> prefix, idents |-> idents]

ReferencesNew == [locals |-> {}, calls |-> {}, globals |-> {}]

\* variant: the calls of the argument are left out
UnionWithoutCalls(r, s) ==
    [locals |-> r.locals \cup s.locals,
     calls |-> r.calls,
     globals |-> r.globals \cup s.globals]

\* References::union
Union(r, s) ==
    [locals |-> r.locals \cup s.locals,
     calls |-> r.calls \cup s.calls,
     globals |-> r.globals \cup s.globals]

\* references.has_local(symbol)
HasLocal(r, symbol) == symbol \in r.locals

\* Output::new(constraint)
OutputNew(constraint) ==
    [references |-> ReferencesNew, tail_call |-> None, constraint |-> constraint]

(* Constraints *)
CTrue == [kind |-> "True"]
CEq(what) == [kind |-> "Eq", what |-> what]
CAnd(cs) == [kind |-> "And", cs |-> cs]
CLookup(symbol) == [kind |-> "Lookup", symbol |-> symbol]
CLet(flex_vars, assignment_types, assignments_constraint, ret_constraint) ==
    [kind |-> "Let", flex_vars |-> flex_vars, assignment_types |-> assignment_types,
     assignments_constraint |-> assignments_constraint, ret_constraint |-> ret_constraint]

-----------------------------------------------------------------------------
(* The parsed tree: ast::Expr, ast::Pattern, Def *)

AInt(raw) == [kind |-> "Int", raw |-> raw]
AStr == [kind |-> "Str"]
ARecord(n) == [kind |-> "Record", fields |-> n]
AVar(path, name) == [kind |-> "Var", path |-> path, name |-> name]
AList(elems) == [kind |-> "List", elems |-> elems]
AOperator(left, op, right) == [kind |-> "Operator", left |-> left, op |-> op, right |-> right]
ADefs(defs, ret) == [kind |-> "Defs", defs |-> defs, ret |-> ret]
AClosure(args, body) == [kind |-> "Closure", args |-> args, body |-> body]
AApply(fn, args) == [kind |-> "Apply", fn |-> fn, args |-> args]
ASpaceBefore(e) == [kind |-> "SpaceBefore", sub |-> e]
ASpaceAfter(e) == [kind |-> "SpaceAfter", sub |-> e]
AIf == [kind |-> "If"]

PIdentifier(name) == [kind |-> "Identifier", name |-> name]
PUnderscore == [kind |-> "Underscore"]
PQualifiedIdentifier(name) == [kind |-> "QualifiedIdentifier", name |-> name]

BodyOnly(pattern, expr) == [kind |-> "BodyOnly", pattern |-> pattern, expr |-> expr]
AnnotationOnly == [kind |-> "AnnotationOnly", pattern |-> PUnderscore, expr |-> AStr]
AnnotatedBody(pattern, expr) == [kind |-> "AnnotatedBody", pattern |-> pattern, expr |-> expr]

(* The canonical tree: Expr, Pattern *)
EInt(n) == [kind |-> "Int", value |-> n]
EStr == [kind |-> "Str"]
EEmptyRecord == [kind |-> "EmptyRecord"]
EEmptyList == [kind |-> "EmptyList"]
EVar(symbol) == [kind |-> "Var", symbol |-> symbol]
ECall(fn, args) == [kind |-> "Call", fn |-> fn, args |-> args]
EList(elems) == [kind |-> "List", elems |-> elems]
EFunctionPointer(symbol) == [kind |-> "FunctionPointer", symbol |-> symbol]
EDefine(assignments, ret) == [kind |-> "Define", assignments |-> assignments, ret |-> ret]
ERuntimeError(error) == [kind |-> "RuntimeError", error |-> error]

CanIdentifier(symbol) == [kind |-> "Identifier", symbol |-> symbol]

-----------------------------------------------------------------------------
(* Integer literals: int_from_parsed and its hex / octal / binary siblings *)

\* char::to_digit: the digit value of a character, 99 for a non-digit
DigitValue(c) ==
    CASE c = "0" -> 0 [] c = "1" -> 1 [] c = "2" -> 2 [] c = "3" -> 3
      [] c = "4" -> 4 [] c = "5" -> 5 [] c = "6" -> 6 [] c = "7" -> 7
      [] c = "8" -> 8 [] c = "9" -> 9
      [] c \in {"a", "A"} -> 10 [] c \in {"b", "B"} -> 11 [] c \in {"c", "C"} -> 12
      [] c \in {"d", "D"} -> 13 [] c \in {"e", "E"} -> 14 [] c \in {"f", "F"} -> 15
      [] OTHER -> 99

\* variant: only the first underscore is removed
StripUnderscoresOnce(raw) ==
    IF \A i \in 1..Len(raw) : raw[i] # "_" THEN raw
    ELSE LET k == CHOOSE i \in 1..Len(raw) : raw[i] = "_" /\ \A j \in 1..(i - 1) : raw[j] # "_"
         IN SubSeq(raw, 1, k - 1) \o SubSeq(raw, k + 1, Len(raw))

\* raw.replace("_", "")
RECURSIVE StripUnderscores(_)
StripUnderscores(raw) ==
    IF raw = <<>> THEN <<>>
    ELSE IF Head(raw) = "_" THEN StripUnderscores(Tail(raw))
    ELSE <<Head(raw)>> \o StripUnderscores(Tail(raw))

RECURSIVE StripLeadingZeros(_)
StripLeadingZeros(ds) ==
    IF ds # <<>> /\ Head(ds) = 0 THEN StripLeadingZeros(Tail(ds)) ELSE ds

Repeat(d, n) == [i \in 1..n |-> d]

\* the digits of i64::MAX (neg = FALSE) and of -i64::MIN (neg = TRUE) in a radix
I64Limit(radix, neg) ==
    CASE radix = 10 ->
           IF neg THEN <<9,2,2,3,3,7,2,0,3,6,8,5,4,7,7,5,8,0,8>>
                  ELSE <<9,2,2,3,3,7,2,0,3,6,8,5,4,7,7,5,8,0,7>>
      [] radix = 16 -> IF neg THEN <<8>> \o Repeat(0, 15) ELSE <<7>> \o Repeat(15, 15)
      [] radix = 8 -> IF neg THEN <<1>> \o Repeat(0, 21) ELSE Repeat(7, 21)
      [] OTHER -> IF neg THEN <<1>> \o Repeat(0, 63) ELSE Repeat(1, 63)

\* a <= b for digit strings without leading zeros
RECURSIVE LexLeq(_, _)
LexLeq(a, b) ==
    IF a = <<>> THEN TRUE
    ELSE IF Head(a) # Head(b) THEN Head(a) < Head(b)
    ELSE LexLeq(Tail(a), Tail(b))

MagnitudeLeq(a, b) == Len(a) < Len(b) \/ (Len(a) = Len(b) /\ LexLeq(a, b))

\* i64::from_str_radix(src, radix); the value is kept as sign and magnitude digits
from_str_radix(src, radix) ==
    IF src = <<>> THEN [ok |-> FALSE, neg |-> FALSE, mag |-> <<>>]
    ELSE LET neg == Head(src) = "-"
             digits == IF Head(src) \in {"+", "-"} THEN Tail(src) ELSE src
             values == [i \in 1..Len(digits) |-> DigitValue(digits[i])]
             mag == StripLeadingZeros(values)
         IN IF digits = <<>> \/ \E i \in 1..Len(values) : values[i] >= radix
            THEN [ok |-> FALSE, neg |-> FALSE, mag |-> <<>>]
            ELSE IF ~MagnitudeLeq(mag, I64Limit(radix, neg))
            THEN [ok |-> FALSE, neg |-> FALSE, mag |-> <<>>]
            ELSE [ok |-> TRUE, neg |-> neg /\ mag # <<>>, mag |-> mag]

RuntimeProblem(error) == [kind |-> "RuntimeError", error |-> error]

\* variant: every failure is reported as IntOutsideRange
LiteralFromParsedOneKind(raw, radix, error_kind) ==
    LET parsed == from_str_radix(StripUnderscores(raw), radix)
        runtime_error == [kind |-> "IntOutsideRange", raw |-> raw]
    IN IF parsed.ok
       THEN [constraint |-> CEq("IntLiteral"),
             answer |-> EInt([neg |-> parsed.neg, mag |-> parsed.mag, radix |-> radix]),
             problems |-> <<>>]
       ELSE [constraint |-> CTrue,
             answer |-> ERuntimeError(runtime_error),
             problems |-> <<RuntimeProblem(runtime_error)>>]

\* the shared body of int_from_parsed, hex_from_parsed, oct_from_parsed, bin_from_parsed:
\* (constraint, answer) and the problems the call appends
LiteralFromParsed(raw, radix, error_kind) ==
    LET parsed == from_str_radix(StripUnderscores(raw), radix)
        runtime_error == [kind |-> error_kind, raw |-> raw]
    IN IF parsed.ok
       THEN [constraint |-> CEq("IntLiteral"),
             answer |-> EInt([neg |-> parsed.neg, mag |-> parsed.mag, radix |-> radix]),
             problems |-> <<>>]
       ELSE [constraint |-> CTrue,
             answer |-> ERuntimeError(runtime_error),
             problems |-> <<RuntimeProblem(runtime_error)>>]

int_from_parsed(raw) == LiteralFromParsed(raw, 10, "IntOutsideRange")
hex_from_parsed(raw) == LiteralFromParsed(raw, 16, "InvalidHex")
oct_from_parsed(raw) == LiteralFromParsed(raw, 8, "InvalidOctal")
bin_from_parsed(raw) == LiteralFromParsed(raw, 2, "InvalidBinary")

-----------------------------------------------------------------------------
(* Identifier resolution *)

\* The outcome of resolve_ident: Ok(symbol) or Err(ident), and `references`
\* as the call leaves it.
\* variants of the retry path: the symbol recorded as a local; the failure
\* carrying the home-qualified retry form
resolve_ident_retry_as_local(scope, ident, references) ==
    IF ident \in DOMAIN scope.idents
    THEN IF ~ident.q
         THEN [ok |-> TRUE, symbol |-> ScopeSymbol(scope, ident.name), ident |-> ident,
               references |-> [references EXCEPT !.locals = @ \cup {ScopeSymbol(scope, ident.name)}]]
         ELSE [ok |-> TRUE, symbol |-> SymbolNew(ident.path, ident.name), ident |-> ident,
               references |-> [references EXCEPT
                                 !.globals = @ \cup {SymbolNew(ident.path, ident.name)}]]
    ELSE IF ~ident.q /\ Qualified(home, ident.name) \in DOMAIN scope.idents
    THEN [ok |-> TRUE, symbol |-> SymbolNew(home, ident.name), ident |-> ident,
          references |-> [references EXCEPT !.locals = @ \cup {SymbolNew(home, ident.name)}]]
    ELSE [ok |-> FALSE, symbol |-> None, ident |-> ident, references |-> references]

resolve_ident_echo_qualified(scope, ident, references) ==
    IF ident \in DOMAIN scope.idents
    THEN IF ~ident.q
         THEN [ok |-> TRUE, symbol |-> ScopeSymbol(scope, ident.name), ident |-> ident,
               references |-> [references EXCEPT !.locals = @ \cup {ScopeSymbol(scope, ident.name)}]]
         ELSE [ok |-> TRUE, symbol |-> SymbolNew(ident.path, ident.name), ident |-> ident,
               references |-> [references EXCEPT
                                 !.globals = @ \cup {SymbolNew(ident.path, ident.name)}]]
    ELSE IF ~ident.q /\ Qualified(home, ident.name) \in DOMAIN scope.idents
    THEN [ok |-> TRUE, symbol |-> SymbolNew(home, ident.name), ident |-> ident,
          references |-> [references EXCEPT !.globals = @ \cup {SymbolNew(home, ident.name)}]]
    ELSE [ok |-> FALSE, symbol |-> None,
          ident |-> IF ident.q THEN ident ELSE Qualified(home, ident.name),
          references |-> references]

resolve_ident(scope, ident, references) ==
    IF ident \in DOMAIN scope.idents
    THEN IF ~ident.q
         THEN LET symbol == ScopeSymbol(scope, ident.name)
              IN [ok |-> TRUE, symbol |-> symbol, ident |-> ident,
                  references |-> [references EXCEPT !.locals = @ \cup {symbol}]]
         ELSE LET symbol == SymbolNew(ident.path, ident.name)
              IN [ok |-> TRUE, symbol |-> symbol, ident |-> ident,
                  references |-> [references EXCEPT !.globals = @ \cup {symbol}]]
    ELSE IF ~ident.q
         THEN \* Try again, this time using the current module as the path.
              LET qualified == Qualified(home, ident.name)
              IN IF qualified \in DOMAIN scope.idents
                 THEN LET symbol == SymbolNew(home, ident.name)
                      IN [ok |-> TRUE, symbol |-> symbol, ident |-> ident,
                          references |-> [references EXCEPT !.globals = @ \cup {symbol}]]
                 ELSE [ok |-> FALSE, symbol |-> None, ident |-> Unqualified(ident.name),
                       references |-> references]
         ELSE [ok |-> FALSE, symbol |-> None, ident |-> ident, references |-> references]

\* Ident::new(module_parts, name)
IdentNew(path, name) == IF path = "" THEN Unqualified(name) ELSE Qualified(path, name)

\* Symbol::from_parts(module_parts, name)
SymbolFromParts(path, name) == SymbolNew(path, name)

\* variant: a failed resolution becomes the RuntimeError node without being
\* added to env.problems
CanonicalizeVarUnreported(scope, path, name) ==
    LET output == OutputNew(CLookup(SymbolFromParts(path, name)))
        r == resolve_ident(scope, IdentNew(path, name), output.references)
        out == [output EXCEPT !.references = r.references]
    IN IF r.ok
       THEN [expr |-> EVar(r.symbol), output |-> out, problems |-> <<>>]
       ELSE [expr |-> ERuntimeError([kind |-> "UnrecognizedConstant", ident |-> r.ident]),
             output |-> out, problems |-> <<>>]

\* the Var arm of canonicalize_expr: (can_expr, output) and the problems appended
CanonicalizeVar(scope, path, name) ==
    LET symbol == SymbolFromParts(path, name)
        output == OutputNew(CLookup(symbol))
        ident == IdentNew(path, name)
        r == resolve_ident(scope, ident, output.references)
        out == [output EXCEPT !.references = r.references]
    IN IF r.ok
       THEN [expr |-> EVar(r.symbol), output |-> out, problems |-> <<>>]
       ELSE [expr |-> ERuntimeError([kind |-> "UnrecognizedConstant", ident |-> r.ident]),
             output |-> out,
             problems |-> <<[kind |-> "UnrecognizedConstant", ident |-> r.ident]>>]

-----------------------------------------------------------------------------
(* Patterns *)

\* variant: only the first pair is inserted
union_pairs_first(map, pairs) ==
    IF pairs = <<>> THEN map ELSE MapInsert(map, Head(pairs).ident, Head(pairs).symbol)

\* union_pairs(map, pairs): insert every pair, in order
RECURSIVE union_pairs(_, _)
union_pairs(map, pairs) ==
    IF pairs = <<>> THEN map
    ELSE union_pairs(MapInsert(map, Head(pairs).ident, Head(pairs).symbol), Tail(pairs))

\* add_idents_from_pattern: the pairs one pattern contributes; the patterns
\* it has no rule for panic
PatternPanics(pattern) == pattern.kind \in {"QualifiedIdentifier", "Apply", "RecordDestructure"}

add_idents_from_pattern(region, pattern, scope) ==
    IF pattern.kind = "Identifier"
    THEN <<[ident |-> Unqualified(pattern.name),
            symbol |-> ScopeSymbol(scope, pattern.name),
            region |-> region]>>
    ELSE <<>>

\* idents_from_patterns over located patterns [region, pattern]
RECURSIVE idents_from_patterns(_, _)
idents_from_patterns(loc_patterns, scope) ==
    IF loc_patterns = <<>> THEN <<>>
    ELSE add_idents_from_pattern(Head(loc_patterns).region, Head(loc_patterns).pattern, scope)
         \o idents_from_patterns(Tail(loc_patterns), scope)

\* canonicalize_pattern for an assignment: the canonical pattern and the scope
\* with the bound identifier registered
canonicalize_pattern(scope, pattern) ==
    IF pattern.kind = "Identifier"
    THEN LET symbol == ScopeSymbol(scope, pattern.name)
         IN [pattern |-> CanIdentifier(symbol),
             scope |-> [scope EXCEPT !.idents =
                           MapInsert(@, Unqualified(pattern.name), symbol)]]
    ELSE [pattern |-> [kind |-> pattern.kind, symbol |-> None], scope |-> scope]

-----------------------------------------------------------------------------
(* The successor graph of a def block *)

Diverges == [diverges |-> TRUE, set |-> {}]

\* local_successors / call_successors.  The two functions call each other
\* with no visited set; `depth` counts the call_successors frames on the
\* stack.  A chain deeper than the number of procedures holds one procedure
\* twice, and the recursion, a function of the call symbol alone, never ends.
RECURSIVE local_successors_at(_, _, _)
RECURSIVE call_successors_at(_, _, _)
local_successors_at(references, procs, depth) ==
    LET subs == {call_successors_at(call_symbol, procs, depth) : call_symbol \in references.calls}
    IN IF \E a \in subs : a.diverges THEN Diverges
       ELSE [diverges |-> FALSE, set |-> references.locals \cup UNION {a.set : a \in subs}]

call_successors_at(call_symbol, procs, depth) ==
    IF call_symbol \in DOMAIN procs
    THEN IF depth >= Cardinality(DOMAIN procs) THEN Diverges
         ELSE LET answer == local_successors_at(procs[call_symbol].references, procs, depth + 1)
              IN IF answer.diverges THEN Diverges
                 ELSE [diverges |-> FALSE, set |-> answer.set \cup {call_symbol}]
    ELSE [diverges |-> FALSE, set |-> {}]

local_successors(references, procs) == local_successors_at(references, procs, 0)
call_successors(call_symbol, procs) == call_successors_at(call_symbol, procs, 0)

\* the `successors` closure of can_defs: unwrap() panics on a symbol that is
\* no key of refs_by_assignment
SuccessorsPanics(symbol, refs_by_assignment) == symbol \notin DOMAIN refs_by_assignment

successors(symbol, refs_by_assignment, procs) ==
    local_successors(refs_by_assignment[symbol].refs, procs)

-----------------------------------------------------------------------------
(* The reference walk: references_from_local / references_from_call.       *)
(* A walk state is the answer so far, the shared visited set, whether      *)
(* unreachable!() was hit, and `followed`: the symbols whose references    *)
(* the walk has followed, in call order.  The code keeps no such list; it  *)
(* is the measure of the walk's length, and a walk that has followed more  *)
(* than MaxWalk symbols is cut off there.  Sets are iterated in an         *)
(* arbitrary fixed order.                                                  *)

RECURSIVE references_from_local(_, _, _, _, _)
RECURSIVE references_from_call(_, _, _, _, _)
RECURSIVE WalkLocals(_, _, _, _)
RECURSIVE WalkCalls(_, _, _, _)

\* the loop over the locals of the symbol being followed
WalkLocals(locals, st, refs_by_assignment, procs) ==
    IF locals = <<>> \/ st.panic \/ Len(st.followed) > MaxWalk THEN st
    ELSE LET local == Head(locals)
             st1 == IF local \notin st.visited
                    THEN LET other == references_from_local(local, st.visited, refs_by_assignment,
                                                            procs, st.followed)
                         IN [answer |-> Union(st.answer, other.answer),
                             visited |-> other.visited, panic |-> other.panic,
                             followed |-> other.followed]
                    ELSE st
             st2 == [st1 EXCEPT !.answer.locals = @ \cup {local}]
         IN WalkLocals(Tail(locals), st2, refs_by_assignment, procs)

\* the loop over the calls of the symbol being followed
WalkCalls(calls, st, refs_by_assignment, procs) ==
    IF calls = <<>> \/ st.panic \/ Len(st.followed) > MaxWalk THEN st
    ELSE LET call == Head(calls)
             st1 == IF call \notin st.visited
                    THEN LET other == references_from_call(call, st.visited, refs_by_assignment,
                                                           procs, st.followed)
                         IN [answer |-> Union(st.answer, other.answer),
                             visited |-> other.visited, panic |-> other.panic,
                             followed |-> other.followed]
                    ELSE st
             st2 == [st1 EXCEPT !.answer.calls = @ \cup {call}]
         IN WalkCalls(Tail(calls), st2, refs_by_assignment, procs)

\* variant: the symbol is not put in visited before its references are followed
references_from_local_unmarked(assigned_symbol, visited, refs_by_assignment, procs, followed) ==
    IF assigned_symbol \in DOMAIN refs_by_assignment
    THEN LET refs == refs_by_assignment[assigned_symbol].refs
             st0 == [answer |-> ReferencesNew, visited |-> visited, panic |-> FALSE,
                     followed |-> Append(followed, assigned_symbol)]
             st1 == WalkLocals(SetToSeq(refs.locals), st0, refs_by_assignment, procs)
         IN IF Len(followed) >= MaxWalk THEN st0
            ELSE WalkCalls(SetToSeq(refs.calls), st1, refs_by_assignment, procs)
    ELSE [answer |-> ReferencesNew, visited |-> visited, panic |-> TRUE,
          followed |-> followed]

references_from_local(assigned_symbol, visited, refs_by_assignment, procs, followed) ==
    IF assigned_symbol \in DOMAIN refs_by_assignment
    THEN LET refs == refs_by_assignment[assigned_symbol].refs
             st0 == [answer |-> ReferencesNew,
                     visited |-> visited \cup {assigned_symbol}, panic |-> FALSE,
                     followed |-> Append(followed, assigned_symbol)]
             st1 == WalkLocals(SetToSeq(refs.locals), st0, refs_by_assignment, procs)
         IN IF Len(followed) >= MaxWalk THEN st0
            ELSE WalkCalls(SetToSeq(refs.calls), st1, refs_by_assignment, procs)
    ELSE \* unreachable!()
         [answer |-> ReferencesNew, visited |-> visited, panic |-> TRUE,
          followed |-> followed]

references_from_call(call_symbol, visited, refs_by_assignment, procs, followed) ==
    IF call_symbol \in DOMAIN procs
    THEN LET procedure == procs[call_symbol]
             st0 == [answer |-> procedure.references,
                     visited |-> visited \cup {call_symbol}, panic |-> FALSE,
                     followed |-> Append(followed, call_symbol)]
             st1 == WalkLocals(SetToSeq(procedure.references.locals), st0, refs_by_assignment, procs)
         IN IF Len(followed) >= MaxWalk THEN st0
            ELSE WalkCalls(SetToSeq(procedure.references.calls), st1, refs_by_assignment, procs)
    ELSE [answer |-> ReferencesNew, visited |-> visited, panic |-> FALSE,
          followed |-> followed]

\* the two loops of can_defs over the return expression's locals and calls:
\* output.references after them, or the panic; each call starts a walk
RECURSIVE CollectFromLocals(_, _, _, _)
CollectFromLocals(symbols, st, refs_by_assignment, procs) ==
    IF symbols = <<>> \/ st.panic THEN st
    ELSE LET refs == references_from_local(Head(symbols), st.visited, refs_by_assignment,
                                           procs, <<>>)
         IN CollectFromLocals(Tail(symbols),
                [answer |-> Union(st.answer, refs.answer),
                 visited |-> refs.visited, panic |-> refs.panic],
                refs_by_assignment, procs)

RECURSIVE CollectFromCalls(_, _, _, _)
CollectFromCalls(symbols, st, refs_by_assignment, procs) ==
    IF symbols = <<>> \/ st.panic THEN st
    ELSE LET refs == references_from_call(Head(symbols), st.visited, refs_by_assignment,
                                          procs, <<>>)
         IN CollectFromCalls(Tail(symbols),
                [answer |-> Union(st.answer, refs.answer),
                 visited |-> refs.visited, panic |-> refs.panic],
                refs_by_assignment, procs)

\* variant: the return expression's own references, nothing followed
CollectDirect(references, refs_by_assignment, procs) ==
    [answer |-> references, visited |-> {}, panic |-> FALSE]

CollectReferences(references, refs_by_assignment, procs) ==
    LET st0 == [answer |-> references, visited |-> {}, panic |-> FALSE]
        st1 == CollectFromLocals(SetToSeq(references.locals), st0, refs_by_assignment, procs)
    IN IF st1.panic THEN st1
       ELSE CollectFromCalls(SetToSeq(st1.answer.calls), st1, refs_by_assignment, procs)

\* the UnusedAssignment problems of a block, in assigned_idents order
RECURSIVE UnusedProblems(_, _)
UnusedProblems(assigned_idents, references) ==
    IF assigned_idents = <<>> THEN <<>>
    ELSE LET h == Head(assigned_idents)
         IN (IF ~HasLocal(references, h.symbol)
             THEN <<[kind |-> "UnusedAssignment", ident |-> h.ident, region |-> h.region]>>
             ELSE <<>>)
            \o UnusedProblems(Tail(assigned_idents), references)

-----------------------------------------------------------------------------
(* Cycle reporting *)

\* the loop of sort_cyclic_idents: [answer, end, encountered_first_ident]
RECURSIVE SortLoop(_, _, _)
SortLoop(loc_idents, first_ident, st) ==
    IF loc_idents = <<>> THEN st
    ELSE LET loc_ident == Head(loc_idents)
             st1 == IF st.encountered
                    THEN [st EXCEPT !.answer = Append(@, loc_ident)]
                    ELSE IF loc_ident = first_ident
                    THEN [st EXCEPT !.encountered = TRUE, !.answer = Append(@, loc_ident)]
                    ELSE [st EXCEPT !.end = Append(@, loc_ident)]
         IN SortLoop(Tail(loc_idents), first_ident, st1)

\* variants: `end` never added back; the part from first_ident on reversed
sort_cyclic_idents_without_end(loc_idents, ordered_idents) ==
    LET found == {i \in 1..Len(ordered_idents) : ordered_idents[i] \in Range(loc_idents)}
    IN IF found = {} THEN [panic |-> TRUE, idents |-> <<>>]
       ELSE LET first == CHOOSE i \in found : \A j \in found : i <= j
                st == SortLoop(loc_idents, ordered_idents[first],
                               [answer |-> <<>>, end |-> <<>>, encountered |-> FALSE])
            IN [panic |-> FALSE, idents |-> st.answer]

sort_cyclic_idents_reordered(loc_idents, ordered_idents) ==
    LET found == {i \in 1..Len(ordered_idents) : ordered_idents[i] \in Range(loc_idents)}
    IN IF found = {} THEN [panic |-> TRUE, idents |-> <<>>]
       ELSE LET first == CHOOSE i \in found : \A j \in found : i <= j
                st == SortLoop(loc_idents, ordered_idents[first],
                               [answer |-> <<>>, end |-> <<>>, encountered |-> FALSE])
            IN [panic |-> FALSE, idents |-> Reverse(st.answer) \o st.end]

\* sort_cyclic_idents(loc_idents, ordered_idents); the unwrap() panics when
\* no ordered ident is in loc_idents
sort_cyclic_idents(loc_idents, ordered_idents) ==
    LET found == {i \in 1..Len(ordered_idents) : ordered_idents[i] \in Range(loc_idents)}
    IN IF found = {} THEN [panic |-> TRUE, idents |-> <<>>]
       ELSE LET first == CHOOSE i \in found : \A j \in found : i <= j
                st == SortLoop(loc_idents, ordered_idents[first],
                               [answer |-> <<>>, end |-> <<>>, encountered |-> FALSE])
            IN [panic |-> FALSE, idents |-> st.answer \o st.end]

-----------------------------------------------------------------------------
(* graph::topological_sort and graph::strongly_connected_component *)

\* the nodes reachable from a set over an edge relation given as a function
\* node -> set of nodes, defined on `keys`
RECURSIVE ReachFrom(_, _, _)
ReachFrom(front, seen, edges) ==
    IF front = {} THEN seen
    ELSE LET next == UNION {IF n \in DOMAIN edges THEN edges[n] ELSE {} : n \in front}
         IN ReachFrom(next \ (seen \cup front), seen \cup front, edges)

\* reachable in one step or more
ReachPlus(n, edges) ==
    IF n \in DOMAIN edges THEN ReachFrom(edges[n], {}, edges) ELSE {}

OnCycle(n, edges) == n \in ReachPlus(n, edges)

\* topological_sort(nodes, successors): Ok(an order of the nodes in which every
\* node comes before its successors) or Err(a node that is part of a cycle)
topological_sort(nodes, edges) ==
    LET cyclic == {n \in DOMAIN edges : OnCycle(n, edges)}
    IN IF cyclic # {}
       THEN {[ok |-> FALSE, sorted |-> <<>>, node |-> n] : n \in cyclic}
       ELSE {[ok |-> TRUE, sorted |-> s, node |-> None] :
               s \in {p \in Perms(nodes) :
                        \A i, j \in 1..Len(p) : p[j] \in edges[p[i]] => i < j}}

\* strongly_connected_component(node, successors): the members of the component
\* of `node`, each once, in the order the search leaves them
strongly_connected_component(node, edges) ==
    Perms({m \in DOMAIN edges :
             m = node \/ (m \in ReachPlus(node, edges) /\ node \in ReachPlus(m, edges))})

-----------------------------------------------------------------------------
(* The machine *)

Top == stack[Len(stack)]
Pop == SubSeq(stack, 1, Len(stack) - 1)
Push(frame) == Append(stack, frame)
ReplaceTop(frame) == [stack EXCEPT ![Len(stack)] = frame]

Calling(kind) == pc = "call" /\ arg.expr.kind = kind
ReturningTo(kind) == pc = "return" /\ stack # <<>> /\ Top.kind = kind
InDefs(phase) == pc = "defs" /\ stack # <<>> /\ Top.kind = "Defs" /\ Top.phase = phase

\* canonicalize_expr hands (expr, output) back to its caller
Return(expr, output) ==
    /\ pc' = "return"
    /\ arg' = Null
    /\ result' = [expr |-> expr, output |-> output]

\* canonicalize_expr calls itself on a sub-expression with the scope it holds
Call(expr, scope) ==
    /\ pc' = "call"
    /\ arg' = [expr |-> expr, scope |-> scope]
    /\ result' = Null

Panic(msg) ==
    /\ pc' = "panic"
    /\ panic_msg' = msg
    /\ UNCHANGED <<program, declared, arg, result, stack, scopes, problems, procedures,
                   returned, fn_in, fn_out>>

Frame == <<program, declared, fn_in, fn_out, panic_msg>>
Kept == <<program, declared, fn_in, fn_out, panic_msg, returned>>

(* Literals *)

IntKinds == {"Int", "HexInt", "OctalInt", "BinaryInt"}

IntLiteral(expr) ==
    CASE expr.kind = "Int" -> int_from_parsed(expr.raw)
      [] expr.kind = "HexInt" -> hex_from_parsed(expr.raw)
      [] expr.kind = "OctalInt" -> oct_from_parsed(expr.raw)
      [] OTHER -> bin_from_parsed(expr.raw)

CanonInt ==
    /\ pc = "call" /\ arg.expr.kind \in IntKinds
    /\ LET r == IntLiteral(arg.expr)
       IN /\ Return(r.answer, OutputNew(r.constraint))
          /\ problems' = problems \o r.problems
    /\ UNCHANGED <<stack, scopes, procedures>>
    /\ UNCHANGED Kept

CanonStr ==
    /\ Calling("Str")
    /\ Return(EStr, OutputNew(CEq("Str")))
    /\ UNCHANGED <<stack, scopes, problems, procedures>>
    /\ UNCHANGED Kept

CanonEmptyRecord ==
    /\ Calling("Record")
    /\ arg.expr.fields = 0
    /\ Return(EEmptyRecord, OutputNew(CEq("EmptyRec")))
    /\ UNCHANGED <<stack, scopes, problems, procedures>>
    /\ UNCHANGED Kept

CanonRecordPanic ==
    /\ Calling("Record")
    /\ arg.expr.fields > 0
    /\ Panic("TODO canonicalize nonempty record")

(* Var *)

CanonVar ==
    /\ Calling("Var")
    /\ LET r == CanonicalizeVar(scopes[arg.scope], arg.expr.path, arg.expr.name)
       IN /\ Return(r.expr, r.output)
          /\ problems' = problems \o r.problems
    /\ UNCHANGED <<stack, scopes, procedures>>
    /\ UNCHANGED Kept

(* List *)

CanonEmptyList ==
    /\ Calling("List")
    /\ arg.expr.elems = <<>>
    /\ Return(EEmptyList, OutputNew(CEq("EmptyList")))
    /\ UNCHANGED <<stack, scopes, problems, procedures>>
    /\ UNCHANGED Kept

CanonList ==
    /\ Calling("List")
    /\ arg.expr.elems # <<>>
    /\ stack' = Push([kind |-> "List", scope |-> arg.scope, elems |-> arg.expr.elems,
                      i |-> 1, can_elems |-> <<>>, constraints |-> <<>>,
                      references |-> ReferencesNew])
    /\ Call(arg.expr.elems[1], arg.scope)
    /\ UNCHANGED <<scopes, problems, procedures>>
    /\ UNCHANGED Kept

\* variant: the references of the last element replace those before it
ListElemDoneLastReferences ==
    /\ ReturningTo("List")
    /\ LET f == Top
           g == [f EXCEPT !.constraints = @ \o <<CEq("ElemInList"), result.output.constraint>>,
                          !.references = result.output.references,
                          !.can_elems = Append(@, result.expr),
                          !.i = @ + 1]
       IN IF g.i <= Len(g.elems)
          THEN /\ stack' = ReplaceTop(g)
               /\ Call(g.elems[g.i], g.scope)
          ELSE /\ stack' = Pop
               /\ Return(EList(g.can_elems),
                         [references |-> g.references,
                          \* A list literal is never a tail call!
                          tail_call |-> None,
                          constraint |-> CAnd(Append(g.constraints, CEq("ListType")))])
    /\ UNCHANGED <<scopes, problems, procedures>>
    /\ UNCHANGED Kept

\* one turn of the loop over loc_elems, after the element's canonicalize_expr
ListElemDone ==
    /\ ReturningTo("List")
    /\ LET f == Top
           g == [f EXCEPT !.constraints = @ \o <<CEq("ElemInList"), result.output.constraint>>,
                          !.references = Union(@, result.output.references),
                          !.can_elems = Append(@, result.expr),
                          !.i = @ + 1]
       IN IF g.i <= Len(g.elems)
          THEN /\ stack' = ReplaceTop(g)
               /\ Call(g.elems[g.i], g.scope)
          ELSE /\ stack' = Pop
               /\ Return(EList(g.can_elems),
                         [references |-> g.references,
                          \* A list literal is never a tail call!
                          tail_call |-> None,
                          constraint |-> CAnd(Append(g.constraints, CEq("ListType")))])
    /\ UNCHANGED <<scopes, problems, procedures>>
    /\ UNCHANGED Kept

(* Operator *)

CanonOperator ==
    /\ Calling("Operator")
    /\ stack' = Push([kind |-> "Operator", scope |-> arg.scope, op |-> arg.expr.op,
                      right |-> arg.expr.right, side |-> "left",
                      left_expr |-> Null, left_out |-> Null])
    /\ Call(arg.expr.left, arg.scope)
    /\ UNCHANGED <<scopes, problems, procedures>>
    /\ UNCHANGED Kept

OperatorLeftDone ==
    /\ ReturningTo("Operator")
    /\ Top.side = "left"
    /\ stack' = ReplaceTop([Top EXCEPT !.side = "right", !.left_expr = result.expr,
                                       !.left_out = result.output])
    /\ Call(Top.right, Top.scope)
    /\ UNCHANGED <<scopes, problems, procedures>>
    /\ UNCHANGED Kept

\* the tail call the Pizza arm computes before it panics
PizzaTailCall(right_expr) ==
    IF right_expr.kind = "Var" THEN right_expr.symbol
    ELSE IF right_expr.kind = "Call" /\ right_expr.fn.kind = "Var" THEN right_expr.fn.symbol
    ELSE None

OperatorRightDone ==
    /\ ReturningTo("Operator")
    /\ Top.side = "right"
    /\ Top.op # "Pizza"
    /\ LET f == Top
           output == [references |-> Union(result.output.references, f.left_out.references),
                      tail_call |-> None,
                      constraint |-> CAnd(<<f.left_out.constraint, CEq("OperatorArgLeft"),
                                            result.output.constraint, CEq("OperatorArgRight"),
                                            CEq("OperatorRet"), CEq("Expected")>>)]
       IN Return(ECall(EVar(<<"operator", f.op>>), <<f.left_expr, result.expr>>), output)
    /\ stack' = Pop
    /\ UNCHANGED <<scopes, problems, procedures>>
    /\ UNCHANGED Kept

OperatorPizzaPanic ==
    /\ ReturningTo("Operator")
    /\ Top.side = "right"
    /\ Top.op = "Pizza"
    /\ Panic("TODO translate |> operator into a Call")

(* Spaces and the arms that are not written yet *)

CanonSpace ==
    /\ pc = "call" /\ arg.expr.kind \in {"SpaceBefore", "SpaceAfter"}
    /\ Call(arg.expr.sub, arg.scope)
    /\ UNCHANGED <<stack, scopes, problems, procedures>>
    /\ UNCHANGED Kept

CanonApplyPanic ==
    /\ Calling("Apply")
    /\ Panic("TODO canonicalize Apply")

CanonClosurePanic ==
    /\ Calling("Closure")
    /\ Panic("TODO constrain Closure")

RestKinds ==
    {"BlockStr", "Field", "QualifiedField", "AccessorFunction", "If", "Case", "Variant",
     "MalformedIdent", "MalformedClosure", "PrecedenceConflict", "AssignField"}

CanonRestPanic ==
    /\ pc = "call" /\ arg.expr.kind \in RestKinds
    /\ Panic("TODO restore the rest of canonicalize()'s branches")

-----------------------------------------------------------------------------
(* can_defs *)

\* the scope can_defs works on: the Defs arm hands it scope.clone()
\* variant: the block works on the caller's scope itself
ScopeShared(heap, ref) == [scopes |-> heap, ref |-> ref]

ScopeForDefs(heap, ref) == [scopes |-> Append(heap, heap[ref]), ref |-> Len(heap) + 1]

\* the patterns of the defs that have one, each with the place of its def
DefPatterns(defs) ==
    LET idx == SelectSeq([i \in 1..Len(defs) |-> i],
                         LAMBDA i : defs[i].kind # "AnnotationOnly")
    IN [k \in 1..Len(idx) |-> [region |-> idx[k], pattern |-> defs[idx[k]].pattern]]

\* entry of can_defs: clone, collect the assigned identifiers, add them to scope
CanonDefs ==
    /\ Calling("Defs")
    /\ \A i \in 1..Len(arg.expr.defs) :
          arg.expr.defs[i].kind = "AnnotationOnly" \/ ~PatternPanics(arg.expr.defs[i].pattern)
    /\ LET own == ScopeForDefs(scopes, arg.scope)
           scope == own.scopes[own.ref]
           assigned_idents == idents_from_patterns(DefPatterns(arg.expr.defs), scope)
       IN /\ scopes' = [own.scopes EXCEPT ![own.ref].idents = union_pairs(@, assigned_idents)]
          /\ stack' = Push([kind |-> "Defs", scope |-> own.ref, caller |-> arg.scope,
                            entry_idents |-> scopes[arg.scope].idents,
                            defs |-> arg.expr.defs, loc_ret |-> arg.expr.ret,
                            i |-> 1, phase |-> "loop",
                            assigned_idents |-> assigned_idents,
                            refs_by_assignment |-> EmptyMap,
                            can_assignments_by_symbol |-> EmptyMap,
                            flex_vars |-> 0, flex_constraints |-> <<>>,
                            flex_assignment_types |-> {},
                            events |-> <<>>,
                            ret_expr |-> Null, output |-> Null])
    /\ pc' = "defs"
    /\ arg' = Null
    /\ UNCHANGED <<result, problems, procedures>>
    /\ UNCHANGED Kept

CanonDefsPatternPanic ==
    /\ Calling("Defs")
    /\ \E i \in 1..Len(arg.expr.defs) :
          arg.expr.defs[i].kind # "AnnotationOnly" /\ PatternPanics(arg.expr.defs[i].pattern)
    /\ Panic("TODO implement pattern in add_idents_from_pattern")

\* a standalone annotation: no pattern, nothing recorded for it
DefsAnnotationOnly ==
    /\ InDefs("loop")
    /\ Top.i <= Len(Top.defs)
    /\ Top.defs[Top.i].kind = "AnnotationOnly"
    /\ stack' = ReplaceTop([Top EXCEPT !.i = @ + 1])
    /\ UNCHANGED <<pc, arg, result, scopes, problems, procedures>>
    /\ UNCHANGED Kept

\* BodyOnly up to the call that canonicalizes the body
DefsBodyOnly ==
    /\ InDefs("loop")
    /\ Top.i <= Len(Top.defs)
    /\ Top.defs[Top.i].kind = "BodyOnly"
    /\ Top.defs[Top.i].pattern.kind = "Identifier"
    /\ LET f == Top
           def == f.defs[f.i]
           symbol == ScopeSymbol(scopes[f.scope], def.pattern.name)
       IN /\ stack' = ReplaceTop([f EXCEPT !.phase = "body",
                                           !.flex_vars = @ + 1,
                                           !.flex_assignment_types = @ \cup {symbol}])
          /\ Call(def.expr, f.scope)
    /\ UNCHANGED <<scopes, problems, procedures>>
    /\ UNCHANGED Kept

\* add_pattern accepts Identifier and Underscore, add_pattern_to_lookup_types
\* only Identifier
DefsBodyOnlyPatternPanic ==
    /\ InDefs("loop")
    /\ Top.i <= Len(Top.defs)
    /\ Top.defs[Top.i].kind = "BodyOnly"
    /\ Top.defs[Top.i].pattern.kind # "Identifier"
    /\ Panic(IF Top.defs[Top.i].pattern.kind = "Underscore"
             THEN "TODO constrain patterns other than Identifier"
             ELSE "TODO other patterns")

DefsAnnotatedBodyPanic ==
    /\ InDefs("loop")
    /\ Top.i <= Len(Top.defs)
    /\ Top.defs[Top.i].kind = "AnnotatedBody"
    /\ Panic("TODO handle annotated def")

\* variant: any tail call marks the closure self tail recursive
NameClosureAnyTailCall(procs, refs_by_assignment, pattern, can_pattern, can_expr, can_output) ==
    IF pattern.kind = "Identifier" /\ can_pattern.kind = "Identifier"
       /\ can_expr.kind = "FunctionPointer"
    THEN LET assigned_symbol == can_pattern.symbol
             symbol == can_expr.symbol
         IN IF symbol \notin DOMAIN procs
            THEN [panic |-> TRUE, procedures |-> procs, refs_by_assignment |-> refs_by_assignment,
                  renamed |-> None, can_expr |-> can_expr]
            ELSE LET procedure == [procs[symbol] EXCEPT
                                      !.name = pattern.name,
                                      !.is_self_tail_recursive =
                                          (can_output.tail_call # None)]
                 IN [panic |-> FALSE,
                     procedures |-> MapInsert(MapRemove(procs, symbol), assigned_symbol, procedure),
                     refs_by_assignment |->
                         [s \in DOMAIN refs_by_assignment |->
                            IF s = assigned_symbol
                            THEN [refs_by_assignment[s] EXCEPT !.refs.locals = @ \ {assigned_symbol}]
                            ELSE refs_by_assignment[s]],
                     renamed |-> assigned_symbol,
                     can_expr |-> EVar(assigned_symbol)]
    ELSE [panic |-> FALSE, procedures |-> procs, refs_by_assignment |-> refs_by_assignment,
          renamed |-> None, can_expr |-> can_expr]

\* variant: the procedure is also left under its generated name
NameClosureKeepsGenerated(procs, refs_by_assignment, pattern, can_pattern, can_expr, can_output) ==
    IF pattern.kind = "Identifier" /\ can_pattern.kind = "Identifier"
       /\ can_expr.kind = "FunctionPointer"
    THEN LET assigned_symbol == can_pattern.symbol
             symbol == can_expr.symbol
         IN IF symbol \notin DOMAIN procs
            THEN [panic |-> TRUE, procedures |-> procs, refs_by_assignment |-> refs_by_assignment,
                  renamed |-> None, can_expr |-> can_expr]
            ELSE LET procedure == [procs[symbol] EXCEPT
                                      !.name = pattern.name,
                                      !.is_self_tail_recursive =
                                          (can_output.tail_call # None
                                           /\ can_output.tail_call = assigned_symbol)]
                 IN [panic |-> FALSE,
                     procedures |-> MapInsert(procs, assigned_symbol, procedure),
                     refs_by_assignment |->
                         [s \in DOMAIN refs_by_assignment |->
                            IF s = assigned_symbol
                            THEN [refs_by_assignment[s] EXCEPT !.refs.locals = @ \ {assigned_symbol}]
                            ELSE refs_by_assignment[s]],
                     renamed |-> assigned_symbol,
                     can_expr |-> EVar(assigned_symbol)]
    ELSE [panic |-> FALSE, procedures |-> procs, refs_by_assignment |-> refs_by_assignment,
          renamed |-> None, can_expr |-> can_expr]

\* "Give closures names (and tail-recursive status) where appropriate."
NameClosure(procs, refs_by_assignment, pattern, can_pattern, can_expr, can_output) ==
    IF pattern.kind = "Identifier" /\ can_pattern.kind = "Identifier"
       /\ can_expr.kind = "FunctionPointer"
    THEN LET assigned_symbol == can_pattern.symbol
             symbol == can_expr.symbol
         IN IF symbol \notin DOMAIN procs
            THEN [panic |-> TRUE, procedures |-> procs, refs_by_assignment |-> refs_by_assignment,
                  renamed |-> None, can_expr |-> can_expr]
            ELSE LET procedure == [procs[symbol] EXCEPT
                                      !.name = pattern.name,
                                      !.is_self_tail_recursive =
                                          (can_output.tail_call # None
                                           /\ can_output.tail_call = assigned_symbol)]
                 IN [panic |-> FALSE,
                     procedures |-> MapInsert(MapRemove(procs, symbol), assigned_symbol, procedure),
                     refs_by_assignment |->
                         [s \in DOMAIN refs_by_assignment |->
                            IF s = assigned_symbol
                            THEN [refs_by_assignment[s] EXCEPT !.refs.locals = @ \ {assigned_symbol}]
                            ELSE refs_by_assignment[s]],
                     renamed |-> assigned_symbol,
                     can_expr |-> EVar(assigned_symbol)]
    ELSE [panic |-> FALSE, procedures |-> procs, refs_by_assignment |-> refs_by_assignment,
          renamed |-> None, can_expr |-> can_expr]

\* "Store the referenced locals in the refs_by_assignment map"
RECURSIVE RecordReferences(_, _, _, _)
RecordReferences(refs_by_assignment, idents, renamed, references) ==
    IF idents = <<>> THEN refs_by_assignment
    ELSE LET h == Head(idents)
             refs == IF renamed # None /\ renamed = h.symbol THEN ReferencesNew ELSE references
         IN RecordReferences(
                MapInsert(refs_by_assignment, h.symbol,
                          [ident |-> h.ident, region |-> h.region, refs |-> refs]),
                Tail(idents), renamed, references)

\* variant: only the first binding of a block is kept
RecordAssignmentsFirstOnly(can_assignments_by_symbol, idents, entry) ==
    IF idents = <<>> \/ DOMAIN can_assignments_by_symbol # {}
    THEN can_assignments_by_symbol
    ELSE MapInsert(can_assignments_by_symbol, Head(idents).symbol, entry)

RECURSIVE RecordAssignments(_, _, _)
RecordAssignments(can_assignments_by_symbol, idents, entry) ==
    IF idents = <<>> THEN can_assignments_by_symbol
    ELSE RecordAssignments(MapInsert(can_assignments_by_symbol, Head(idents).symbol, entry),
                           Tail(idents), entry)

\* what one turn of the loop does with the binding at place i, in the order
\* it does it: canonicalize_expr on the body, canonicalize_pattern, the
\* closure naming when it applies, the refs_by_assignment insert
\* variant: the pattern is canonicalized ahead of the body
BindingEventsPatternFirst(i, renamed) ==
    <<[state |-> "PatternBound", def |-> i], [state |-> "BodyCanonicalized", def |-> i]>>
    \o (IF renamed THEN <<[state |-> "ClosureRenamed", def |-> i]>> ELSE <<>>)
    \o <<[state |-> "ReferencesRecorded", def |-> i]>>

BindingEvents(i, renamed) ==
    <<[state |-> "BodyCanonicalized", def |-> i], [state |-> "PatternBound", def |-> i]>>
    \o (IF renamed THEN <<[state |-> "ClosureRenamed", def |-> i]>> ELSE <<>>)
    \o <<[state |-> "ReferencesRecorded", def |-> i]>>

\* the rest of one turn of the loop over defs, once the body is canonicalized
DefsBodyDone ==
    /\ ReturningTo("Defs")
    /\ Top.phase = "body"
    /\ LET f == Top
           def == f.defs[f.i]
           flex == CLet(0, {}, CAnd(<<>>), result.output.constraint)
           cp == canonicalize_pattern(scopes[f.scope], def.pattern)
           named == NameClosure(procedures, f.refs_by_assignment, def.pattern, cp.pattern,
                                result.expr, result.output)
           idents == idents_from_patterns(<<[region |-> f.i, pattern |-> def.pattern]>>, cp.scope)
       IN IF named.panic
          THEN Panic("unwrap on None: env.procedures.remove")
          ELSE /\ scopes' = [scopes EXCEPT ![f.scope] = cp.scope]
               /\ procedures' = named.procedures
               /\ stack' = ReplaceTop(
                     [f EXCEPT !.phase = "loop",
                               !.i = @ + 1,
                               !.flex_constraints = Append(@, flex),
                               !.events = @ \o BindingEvents(f.i, named.renamed # None),
                               !.refs_by_assignment =
                                   RecordReferences(named.refs_by_assignment, idents,
                                                    named.renamed, result.output.references),
                               !.can_assignments_by_symbol =
                                   RecordAssignments(@, idents,
                                       [pattern |-> cp.pattern, expr |-> named.can_expr])])
               /\ pc' = "defs"
               /\ UNCHANGED <<arg, result, problems>>
               /\ UNCHANGED Kept

\* after the loop: canonicalize the return expression
DefsCanonRet ==
    /\ InDefs("loop")
    /\ Top.i > Len(Top.defs)
    /\ stack' = ReplaceTop([Top EXCEPT !.phase = "ret"])
    /\ Call(Top.loc_ret, Top.scope)
    /\ UNCHANGED <<scopes, problems, procedures>>
    /\ UNCHANGED Kept

\* the three nested Let constraints of the block
DefsConstraint(f, ret_con) ==
    CLet(0, {},
         CLet(f.flex_vars, f.flex_assignment_types,
              CLet(0, f.flex_assignment_types, CTrue, CAnd(f.flex_constraints)),
              CAnd(<<CAnd(<<>>), ret_con>>)),
         CTrue)

\* the Output of the block: the return expression's, with the references
\* the walk collected and the block's constraint
\* variant: a block is never a tail call
DefsOutputNoTailCall(ret_output, references, constraint) ==
    [references |-> references, tail_call |-> None, constraint |-> constraint]

DefsOutput(ret_output, references, constraint) ==
    [ret_output EXCEPT !.references = references, !.constraint = constraint]

\* the return expression is canonicalized: wrap the constraint, collect the
\* references the return expression reaches, report the unused identifiers
DefsRetDone ==
    /\ ReturningTo("Defs")
    /\ Top.phase = "ret"
    /\ LET f == Top
           walk == CollectReferences(result.output.references, f.refs_by_assignment, procedures)
           output == DefsOutput(result.output, walk.answer,
                                DefsConstraint(f, result.output.constraint))
       IN IF walk.panic
          THEN Panic("unreachable!() in references_from_local")
          ELSE /\ problems' = problems \o UnusedProblems(f.assigned_idents, output.references)
               /\ stack' = ReplaceTop([f EXCEPT !.phase = "sort",
                                                !.events = Append(@, [state |-> "ReturnCanonicalized",
                                                                      def |-> 0]),
                                                !.ret_expr = result.expr,
                                                !.output = output])
               /\ pc' = "defs"
               /\ UNCHANGED <<arg, result, scopes, procedures>>
               /\ UNCHANGED Kept

\* the edges the `successors` closure yields on the keys of refs_by_assignment
SuccessorEdges(refs_by_assignment, procs) ==
    [s \in DOMAIN refs_by_assignment |-> successors(s, refs_by_assignment, procs).set]

SuccessorsDiverge(refs_by_assignment, procs) ==
    \E s \in DOMAIN refs_by_assignment : successors(s, refs_by_assignment, procs).diverges

\* the symbols a search from `from` evaluates `successors` on that are no key
MissingFrom(from, refs_by_assignment, procs) ==
    ReachFrom(from, {}, SuccessorEdges(refs_by_assignment, procs)) \ DOMAIN refs_by_assignment

\* the sorted order as the Define lists it
\* variant: the sorted order taken as it comes
DefineOrderAsSorted(sorted_symbols) == sorted_symbols

DefineOrder(sorted_symbols) == Reverse(sorted_symbols)

\* the component as the report lists it, before sort_cyclic_idents
CycleOrder(component) == Reverse(component)

\* topological_sort succeeded: Define
DefsSortOk ==
    /\ InDefs("sort")
    /\ ~SuccessorsDiverge(Top.refs_by_assignment, procedures)
    /\ MissingFrom(DOMAIN Top.can_assignments_by_symbol, Top.refs_by_assignment, procedures) = {}
    /\ \E t \in topological_sort(DOMAIN Top.can_assignments_by_symbol,
                                 SuccessorEdges(Top.refs_by_assignment, procedures)) :
          /\ t.ok
          /\ LET order == DefineOrder(t.sorted)
                 can_assignments == [k \in 1..Len(order) |-> Top.can_assignments_by_symbol[order[k]]]
             IN Return(EDefine(can_assignments, Top.ret_expr), Top.output)
    /\ stack' = Pop
    /\ returned' = Top
    /\ UNCHANGED <<scopes, problems, procedures>>
    /\ UNCHANGED Frame

\* variant: the cycle is turned into the RuntimeError node without being
\* added to env.problems
DefsSortCycleSilent ==
    /\ InDefs("sort")
    /\ ~SuccessorsDiverge(Top.refs_by_assignment, procedures)
    /\ LET f == Top
           edges == SuccessorEdges(f.refs_by_assignment, procedures)
       IN \E t \in topological_sort(DOMAIN f.can_assignments_by_symbol, edges) :
            /\ ~t.ok
            /\ MissingFrom({t.node}, f.refs_by_assignment, procedures) = {}
            /\ \E component \in strongly_connected_component(t.node, edges) :
                 LET in_cycle == [k \in 1..Len(component) |->
                                    f.refs_by_assignment[CycleOrder(component)[k]].ident]
                     ordered == [k \in 1..Len(f.assigned_idents) |-> f.assigned_idents[k].ident]
                     sorted == sort_cyclic_idents(in_cycle, ordered)
                     error == [kind |-> "CircularAssignment", idents |-> sorted.idents]
                 IN /\ ~sorted.panic
                    /\ problems' = problems
                    /\ Return(ERuntimeError(error), f.output)
    /\ stack' = Pop
    /\ returned' = Top
    /\ UNCHANGED <<scopes, procedures>>
    /\ UNCHANGED Frame

\* topological_sort found a node in a cycle: CircularAssignment
DefsSortCycle ==
    /\ InDefs("sort")
    /\ ~SuccessorsDiverge(Top.refs_by_assignment, procedures)
    /\ LET f == Top
           edges == SuccessorEdges(f.refs_by_assignment, procedures)
       IN \E t \in topological_sort(DOMAIN f.can_assignments_by_symbol, edges) :
            /\ ~t.ok
            /\ MissingFrom({t.node}, f.refs_by_assignment, procedures) = {}
            /\ \E component \in strongly_connected_component(t.node, edges) :
                 LET in_cycle == [k \in 1..Len(component) |->
                                    f.refs_by_assignment[CycleOrder(component)[k]].ident]
                     ordered == [k \in 1..Len(f.assigned_idents) |-> f.assigned_idents[k].ident]
                     sorted == sort_cyclic_idents(in_cycle, ordered)
                     error == [kind |-> "CircularAssignment", idents |-> sorted.idents]
                 IN /\ ~sorted.panic
                    /\ problems' = Append(problems, error)
                    /\ Return(ERuntimeError(error), f.output)
    /\ stack' = Pop
    /\ returned' = Top
    /\ UNCHANGED <<scopes, procedures>>
    /\ UNCHANGED Frame

\* the search reaches a symbol that is no key of refs_by_assignment
DefsSortPanic ==
    /\ InDefs("sort")
    /\ \/ SuccessorsDiverge(Top.refs_by_assignment, procedures)
       \/ MissingFrom(DOMAIN Top.can_assignments_by_symbol, Top.refs_by_assignment,
                      procedures) # {}
    /\ Panic(IF SuccessorsDiverge(Top.refs_by_assignment, procedures)
             THEN "stack overflow in call_successors"
             ELSE "unwrap on None: successors")

\* variant: the problems are handed back newest first
FinishNewestFirst ==
    /\ pc = "return"
    /\ stack = <<>>
    /\ pc' = "done"
    /\ problems' = Reverse(problems)
    /\ UNCHANGED <<arg, result, stack, scopes, procedures>>
    /\ UNCHANGED Kept

\* canonicalize_declaration hands back (loc_expr, output, env.problems, env.procedures)
Finish ==
    /\ pc = "return"
    /\ stack = <<>>
    /\ pc' = "done"
    /\ UNCHANGED <<arg, result, stack, scopes, problems, procedures>>
    /\ UNCHANGED Kept

-----------------------------------------------------------------------------
(* The declarations canonicalized: bounded families of parsed trees *)

NameSeq == <<"a", "b", "c", "d", "e">>
NameIndex(x) == CHOOSE i \in 1..Len(NameSeq) : NameSeq[i] = x
FirstNames(n) == {NameSeq[i] : i \in 1..n}

One == AInt(<<"1">>)
Read(x) == AVar("", x)
Plus(l, r) == AOperator(l, "Plus", r)

\* a body that reads exactly the names of S (at most two)
BodyReading(S) ==
    IF S = {} THEN One
    ELSE IF Cardinality(S) = 1 THEN Read(CHOOSE x \in S : TRUE)
    ELSE LET x == CHOOSE y \in S : \A z \in S : NameIndex(y) <= NameIndex(z)
             y == CHOOSE z \in S : z # x
         IN Plus(Read(x), Read(y))

ReadSets(n) == {S \in SUBSET FirstNames(n) : Cardinality(S) <= 2}

\* the orders in which a block of n defs binds the first n names:
\* alphabetical, and starting at the second name
Orders(n) ==
    {[i \in 1..n |-> NameSeq[i]], [i \in 1..n |-> NameSeq[(i % n) + 1]]}

Block(order, reads, ret) ==
    ADefs([i \in 1..Len(order) |-> BodyOnly(PIdentifier(order[i]), BodyReading(reads[i]))], ret)

\* what a block of n defs returns: a literal, a read, a sum of two reads
Rets(n) ==
    {One, Read(NameSeq[1]), Read(NameSeq[n]), Plus(Read(NameSeq[1]), Read(NameSeq[n]))}

\* def blocks of value bindings over their own names, each body reading at
\* most one of them
GraphBlocks ==
    UNION {{Block(order, reads, ret) :
              order \in Orders(n),
              reads \in [1..n -> {S \in ReadSets(n) : Cardinality(S) <= 1}],
              ret \in Rets(n)} : n \in 1..MaxDefs}

\* blocks of three defs in which one body reads two names
BranchingBlocks ==
    {Block(order, reads, ret) :
        order \in Orders(3),
        reads \in {r \in [1..3 -> ReadSets(3)] :
                     Cardinality({i \in 1..3 : Cardinality(r[i]) = 2}) = 1},
        ret \in Rets(3)}

\* blocks that bind one name twice
DuplicateBlocks ==
    {ADefs(<<BodyOnly(PIdentifier("a"), b1), BodyOnly(PIdentifier("a"), b2)>>, ret) :
        b1 \in {One, Read("a")}, b2 \in {One, Read("a")}, ret \in {One, Read("a")}}

\* a small block next to a sibling node, in a list or under an operator
SmallBlocks ==
    {ADefs(<<BodyOnly(PIdentifier("a"), b)>>, ret) :
        b \in {One, Read("a")}, ret \in {One, Read("a")}}

Siblings == {Read("a"), Read("g"), One}

ContextPrograms ==
    UNION {{AList(<<blk, sib>>), AList(<<sib, blk>>), AList(<<sib, blk, sib>>),
            Plus(blk, sib), Plus(sib, blk), ASpaceBefore(Plus(blk, sib)),
            ASpaceAfter(AList(<<blk, sib>>))} :
           blk \in SmallBlocks, sib \in Siblings}

\* a block inside a block: as the return expression, and as a body
NestedPrograms ==
    LET inner == {ADefs(<<BodyOnly(PIdentifier("b"), b)>>, ret) :
                     b \in {One, Read("a"), Read("b")}, ret \in {One, Read("a"), Read("b")}}
    IN UNION {{ADefs(<<BodyOnly(PIdentifier("a"), b)>>, blk),
               ADefs(<<BodyOnly(PIdentifier("a"), blk)>>, ret)} :
              blk \in inner, b \in {One, Read("b")}, ret \in {One, Read("a"), Read("b")}}

\* literals, lists, and the shapes that have no rule yet
LiteralPrograms ==
    {AInt(raw) : raw \in {<<"1">>, <<"1", "_", "0">>, <<"_">>, <<"-", "7">>, <<"x">>}}
    \cup {[kind |-> "HexInt", raw |-> raw] : raw \in {<<"f", "F">>, <<"g">>}}
    \cup {[kind |-> "OctalInt", raw |-> raw] : raw \in {<<"7", "_", "7">>, <<"8">>}}
    \cup {[kind |-> "BinaryInt", raw |-> raw] : raw \in {<<"1", "0">>, <<"2">>}}
    \cup {AStr, ARecord(0), ARecord(1), AList(<<>>), AList(<<One, AStr>>),
          AList(<<AInt(<<"_">>), One>>), AList(<<One>>), AList(<<AList(<<AStr>>), One>>)}

\* \x -> f x
Calls(f) == AClosure(<<PIdentifier("x")>>, AApply(Read(f), <<Read("x")>>))

\* blocks that bind closures: self-recursive, mutually recursive, and next to
\* a value binding
ClosureBlocks ==
    {ADefs(<<BodyOnly(PIdentifier("f"), Calls("f"))>>, ret) :
        ret \in {Read("f"), AApply(Read("f"), <<One>>), One}}
    \cup {ADefs(<<BodyOnly(PIdentifier("a"), Calls("b")), BodyOnly(PIdentifier("b"), Calls("a"))>>,
                Read("a")),
          ADefs(<<BodyOnly(PIdentifier("a"), One), BodyOnly(PIdentifier("f"), Calls("f"))>>,
                Read("f")),
          ADefs(<<BodyOnly(PIdentifier("f"), AClosure(<<PIdentifier("x")>>, Read("x")))>>,
                Read("f"))}

UnwrittenPrograms ==
    {AApply(Read("g"), <<One>>), Calls("g"), AIf, AOperator(One, "Pizza", Read("g")),
     AList(<<One, Calls("g")>>),
     ADefs(<<AnnotatedBody(PIdentifier("a"), One)>>, Read("a")),
     ADefs(<<AnnotationOnly, BodyOnly(PIdentifier("a"), One)>>, Read("a")),
     ADefs(<<AnnotationOnly>>, One),
     ADefs(<<BodyOnly(PUnderscore, One)>>, One),
     ADefs(<<BodyOnly(PQualifiedIdentifier("a"), One)>>, One)}

\* references to names of the module and of other modules
VarPrograms ==
    LET vs == {AVar("", "g"), AVar(home, "g"), AVar("Other", "g"), AVar("", "h")}
    IN vs \cup {Plus(v, w) : v \in vs, w \in vs}
          \cup {AList(<<v, w>>) : v \in vs, w \in vs}
          \cup {ADefs(<<BodyOnly(PIdentifier("a"), v), BodyOnly(PIdentifier("b"), w)>>,
                      Plus(Read("a"), Read("b"))) : v \in vs, w \in vs}
          \cup {ADefs(<<BodyOnly(PIdentifier("a"), v)>>, Read("a")) : v \in vs}
          \cup {ADefs(<<BodyOnly(PIdentifier("g"), One)>>, v) : v \in vs}

\* the blocks the specification names: a = b + 1, b = a + 1 in both orders
ExamplePrograms ==
    {ADefs(<<BodyOnly(PIdentifier(x), Plus(Read(y), One)),
             BodyOnly(PIdentifier(y), Plus(Read(x), One))>>, Read("a")) :
        x \in {"a", "b"}, y \in {"a", "b"}}

NoIdents == EmptyMap

\* declared_idents: what the module declares, by ident
DeclaredOf(idents) ==
    [i \in idents |-> IF i.q THEN SymbolNew(i.path, i.name) ELSE SymbolNew(scope_prefix, i.name)]

DeclaredSets ==
    {DeclaredOf(S) : S \in SUBSET {Qualified(home, "g"), Qualified("Other", "g"),
                                   Unqualified("g")}}

Inputs ==
    {[expr |-> e, declared |-> NoIdents] :
        e \in GraphBlocks \cup BranchingBlocks \cup DuplicateBlocks \cup NestedPrograms
              \cup LiteralPrograms \cup ClosureBlocks \cup UnwrittenPrograms
              \cup ExamplePrograms}
    \cup {[expr |-> e, declared |-> d] :
            e \in ContextPrograms, d \in {NoIdents, DeclaredOf({Qualified(home, "g")})}}
    \cup {[expr |-> e, declared |-> d] : e \in VarPrograms, d \in DeclaredSets}

-----------------------------------------------------------------------------
(* canonicalize_declaration *)

Init ==
    /\ \E input \in Inputs :
          /\ program = input.expr
          /\ declared = input.declared
    /\ scopes = <<ScopeNew(scope_prefix, declared)>>
    /\ pc = "call"
    /\ arg = [expr |-> program, scope |-> 1]
    /\ result = Null
    /\ stack = <<>>
    /\ problems = <<>>
    /\ procedures = EmptyMap
    /\ panic_msg = ""
    /\ returned = Null
    /\ fn_in = Null
    /\ fn_out = Null

Next ==
    \/ CanonInt
    \/ CanonStr
    \/ CanonEmptyRecord
    \/ CanonRecordPanic
    \/ CanonVar
    \/ CanonEmptyList
    \/ CanonList
    \/ ListElemDone
    \/ CanonOperator
    \/ OperatorLeftDone
    \/ OperatorRightDone
    \/ OperatorPizzaPanic
    \/ CanonSpace
    \/ CanonApplyPanic
    \/ CanonClosurePanic
    \/ CanonRestPanic
    \/ CanonDefs
    \/ CanonDefsPatternPanic
    \/ DefsAnnotationOnly
    \/ DefsBodyOnly
    \/ DefsBodyOnlyPatternPanic
    \/ DefsAnnotatedBodyPanic
    \/ DefsBodyDone
    \/ DefsCanonRet
    \/ DefsRetDone
    \/ DefsSortOk
    \/ DefsSortCycle
    \/ DefsSortPanic
    \/ Finish

Spec == Init /\ [][Next]_vars

-----------------------------------------------------------------------------
(* sort_cyclic_idents on its own *)

DistinctSeqs(S, n) ==
    UNION {{q \in [1..k -> S] : \A i, j \in 1..k : i # j => q[i] # q[j]} : k \in 1..n}

AnySeqs(S, n) == UNION {[1..k -> S] : k \in 0..n}

SortIdents == {Unqualified(x) : x \in FirstNames(MaxCycle)}

SortInit ==
    /\ fn_in \in {[loc_idents |-> l, ordered_idents |-> o] :
                    l \in DistinctSeqs(SortIdents, MaxCycle), o \in AnySeqs(SortIdents, MaxCycle)}
    /\ fn_out = Null
    /\ pc = "fn"
    /\ program = Null
    /\ declared = NoIdents
    /\ scopes = <<>>
    /\ arg = Null
    /\ result = Null
    /\ stack = <<>>
    /\ problems = <<>>
    /\ procedures = EmptyMap
    /\ panic_msg = ""
    /\ returned = Null

SortApply ==
    /\ pc = "fn"
    /\ fn_out' = sort_cyclic_idents(fn_in.loc_idents, fn_in.ordered_idents)
    /\ pc' = "fn_done"
    /\ UNCHANGED <<program, declared, arg, result, stack, scopes, problems, procedures,
                   panic_msg, returned, fn_in>>

SortSpec == SortInit /\ [][SortApply]_vars

-----------------------------------------------------------------------------
(* The literal functions and References::union on their own *)

\* literal texts: every text of up to MaxLit characters, and the texts at the
\* edges of the signed 64-bit range in each radix; `marked` is `raw` with one
\* or two underscores put in at some places.
\* References values over two symbols: r and s any of them, t one set in all
\* three fields.
FnInit ==
    /\ fn_in \in
         LET symbols == {SymbolNew(home, "f"), SymbolNew(home, "g")}
             refs == [locals : SUBSET symbols, calls : SUBSET symbols, globals : SUBSET symbols]
             chars == <<"0", "1", "2", "3", "4", "5", "6", "7", "8", "9",
                        "a", "b", "c", "d", "e", "f">>
             radix == [k \in IntKinds |->
                         CASE k = "Int" -> 10 [] k = "HexInt" -> 16
                           [] k = "OctalInt" -> 8 [] OTHER -> 2]
             text(ds) == [i \in 1..Len(ds) |-> chars[ds[i] + 1]]
             short == UNION {[1..n -> {"0", "1", "9", "f", "-", "x"}] : n \in 0..MaxLit}
             edges(k) == {text(I64Limit(radix[k], FALSE)),
                          text(I64Limit(radix[k], TRUE)),
                          <<"-">> \o text(I64Limit(radix[k], TRUE)),
                          <<"-">> \o text(I64Limit(radix[k], TRUE)) \o <<"0">>}
             places(t) == IF Len(t) <= MaxLit THEN SUBSET (0..Len(t))
                          ELSE {{}} \cup {{p} : p \in 0..Len(t)}
             at(t, P, n, i) == i + n * Cardinality({p \in P : p < i})
             mark(t, P, n) ==
                 [j \in 1..(Len(t) + n * Cardinality(P)) |->
                    IF \E i \in 1..Len(t) : at(t, P, n, i) = j
                    THEN t[CHOOSE i \in 1..Len(t) : at(t, P, n, i) = j]
                    ELSE "_"]
         IN UNION {{[fn |-> "literal", kind |-> k, raw |-> t, marked |-> mark(t, P, n)] :
                      P \in places(t), n \in 1..2} :
                   <<k, t>> \in {<<k, t>> \in IntKinds \X (short \cup UNION {edges(k) : k \in IntKinds}) :
                                   t \in short \cup edges(k)}}
            \cup {[fn |-> "union", r |-> r, s |-> x, t |-> t] :
                    r \in refs, x \in refs,
                    t \in {y \in refs : y.locals = y.calls /\ y.calls = y.globals}}
            \cup LET followable == {[refs |-> r] : r \in {y \in refs : y.globals = {}}}
                     closures == {[references |-> r] : r \in {y \in refs : y.globals = {}}}
                 IN {[fn |-> "walk", from |-> how, symbol |-> x, visited |-> v,
                      refs_by_assignment |-> m, procedures |-> q] :
                       how \in {"local", "call"}, x \in symbols,
                       v \in {{}, {SymbolNew(home, "g")}},
                       m \in UNION {[K -> followable] : K \in SUBSET symbols},
                       q \in UNION {[K -> closures] : K \in {{}, {SymbolNew(home, "g")}}}}
            \cup LET near == {SymbolNew(home, "f"), SymbolNew(home, "x")}
                     seen == {[locals |-> l, calls |-> c, globals |-> {}] :
                                l \in SUBSET near, c \in SUBSET near}
                     closure(c) == [name |-> None, is_self_tail_recursive |-> FALSE,
                                    references |-> c]
                     calling(S) == [locals |-> {}, calls |-> S, globals |-> {}]
                 IN {[fn |-> "bind", name |-> "f",
                      assigned_symbol |-> SymbolNew(home, "f"),
                      can_expr |-> e,
                      can_output |-> [references |-> r, tail_call |-> t, constraint |-> CTrue],
                      procedures |-> q @@ (SymbolNew(home, "closure") :> closure(r)),
                      ret |-> [u EXCEPT !.calls = @ \cup v.calls],
                      ret_tail_call |-> v.tail_call] :
                       e \in {EFunctionPointer(SymbolNew(home, "closure")), EInt(1)},
                       r \in seen, t \in {None} \cup near, u \in seen,
                       v \in {[calls |-> {}, tail_call |-> None],
                              [calls |-> {SymbolNew(home, "g")}, tail_call |-> None],
                              [calls |-> {SymbolNew(home, "g")},
                               tail_call |-> SymbolNew(home, "g")]},
                       q \in {EmptyMap,
                              SymbolNew(home, "g") :> closure(ReferencesNew),
                              SymbolNew(home, "g") :> closure(calling({SymbolNew(home, "f")}))}}
            \cup LET called == {[locals |-> l, calls |-> c, globals |-> {}] :
                                  l \in {{}, {SymbolNew(home, "x")}}, c \in SUBSET symbols}
                     callers == {[name |-> None, is_self_tail_recursive |-> FALSE,
                                  references |-> r] : r \in called}
                 IN {[fn |-> "successors", references |-> r, procedures |-> q] :
                       r \in called,
                       q \in UNION {[K -> callers] : K \in SUBSET symbols}}
    /\ fn_out = Null
    /\ pc = "fn"
    /\ program = Null
    /\ declared = NoIdents
    /\ scopes = <<>>
    /\ arg = Null
    /\ result = Null
    /\ stack = <<>>
    /\ problems = <<>>
    /\ procedures = EmptyMap
    /\ panic_msg = ""
    /\ returned = Null

FnApply ==
    /\ pc = "fn"
    /\ \/ /\ fn_in.fn = "literal"
          /\ fn_out' = [plain |-> IntLiteral([kind |-> fn_in.kind, raw |-> fn_in.raw]),
                        marked |-> IntLiteral([kind |-> fn_in.kind, raw |-> fn_in.marked])]
       \/ /\ fn_in.fn = "union"
          /\ fn_out' = [rs |-> Union(fn_in.r, fn_in.s),
                        sr |-> Union(fn_in.s, fn_in.r),
                        rs_t |-> Union(Union(fn_in.r, fn_in.s), fn_in.t),
                        r_st |-> Union(fn_in.r, Union(fn_in.s, fn_in.t)),
                        rr |-> Union(fn_in.r, fn_in.r),
                        r_new |-> Union(fn_in.r, ReferencesNew),
                        new_r |-> Union(ReferencesNew, fn_in.r)]
       \/ /\ fn_in.fn = "walk"
          /\ fn_out' = IF fn_in.from = "local"
                       THEN references_from_local(fn_in.symbol, fn_in.visited,
                                                  fn_in.refs_by_assignment, fn_in.procedures, <<>>)
                       ELSE references_from_call(fn_in.symbol, fn_in.visited,
                                                 fn_in.refs_by_assignment, fn_in.procedures, <<>>)
       \* one turn of can_defs' loop on the binding `name = body` once the body
       \* is canonicalized, in a block whose earlier binding x reads nothing,
       \* and then the walk from the return expression and the unused report
       \/ /\ fn_in.fn = "bind"
          /\ fn_out' =
               LET x == [ident |-> Unqualified("x"), symbol |-> SymbolNew(home, "x"), region |-> 1]
                   f == [ident |-> Unqualified(fn_in.name), symbol |-> fn_in.assigned_symbol,
                         region |-> 2]
                   before == RecordReferences(EmptyMap, <<x>>, None, ReferencesNew)
                   named == NameClosure(fn_in.procedures, before, PIdentifier(fn_in.name),
                                        CanIdentifier(fn_in.assigned_symbol),
                                        fn_in.can_expr, fn_in.can_output)
                   refs_by_assignment ==
                       RecordReferences(named.refs_by_assignment, <<f>>, named.renamed,
                                        fn_in.can_output.references)
                   walk == CollectReferences(fn_in.ret, refs_by_assignment, named.procedures)
               IN [panic |-> named.panic \/ walk.panic,
                   procedures |-> named.procedures,
                   can_expr |-> named.can_expr,
                   refs_by_assignment |-> refs_by_assignment,
                   references |-> walk.answer,
                   output |-> DefsOutput([references |-> fn_in.ret,
                                          tail_call |-> fn_in.ret_tail_call,
                                          constraint |-> CTrue],
                                         walk.answer, CTrue),
                   unused |-> UnusedProblems(<<x, f>>, walk.answer)]
       \* the successors of a binding whose body has these references
       \/ /\ fn_in.fn = "successors"
          /\ fn_out' = local_successors(fn_in.references, fn_in.procedures)
    /\ pc' = "fn_done"
    /\ UNCHANGED <<program, declared, arg, result, stack, scopes, problems, procedures,
                   panic_msg, returned, fn_in>>

FnSpec == FnInit /\ [][FnApply]_vars

-----------------------------------------------------------------------------
(* What a parsed block says, read off the tree *)

Terminal == pc \in {"done", "panic"}

\* no def block inside
RECURSIVE NoDefs(_)
NoDefs(e) ==
    CASE e.kind = "Defs" -> FALSE
      [] e.kind = "Operator" -> NoDefs(e.left) /\ NoDefs(e.right)
      [] e.kind = "List" -> \A i \in 1..Len(e.elems) : NoDefs(e.elems[i])
      [] e.kind \in {"SpaceBefore", "SpaceAfter"} -> NoDefs(e.sub)
      [] e.kind = "Closure" -> NoDefs(e.body)
      [] e.kind = "Apply" -> NoDefs(e.fn) /\ \A i \in 1..Len(e.args) : NoDefs(e.args[i])
      [] OTHER -> TRUE

\* the unqualified names an expression without def blocks reads
RECURSIVE SyntaxReads(_)
SyntaxReads(e) ==
    CASE e.kind = "Var" -> IF e.path = "" THEN {e.name} ELSE {}
      [] e.kind = "Operator" -> SyntaxReads(e.left) \cup SyntaxReads(e.right)
      [] e.kind = "List" -> UNION {SyntaxReads(e.elems[i]) : i \in 1..Len(e.elems)}
      [] e.kind \in {"SpaceBefore", "SpaceAfter"} -> SyntaxReads(e.sub)
      [] e.kind = "Closure" ->
           SyntaxReads(e.body) \ {e.args[i].name : i \in 1..Len(e.args)}
      [] e.kind = "Apply" ->
           SyntaxReads(e.fn) \cup UNION {SyntaxReads(e.args[i]) : i \in 1..Len(e.args)}
      [] OTHER -> {}

\* a top-level block of bodies bound to distinct plain identifiers
NamedBlock(p) ==
    /\ p.kind = "Defs"
    /\ NoDefs(p.ret)
    /\ \A i \in 1..Len(p.defs) :
          /\ p.defs[i].kind = "BodyOnly"
          /\ p.defs[i].pattern.kind = "Identifier"
          /\ NoDefs(p.defs[i].expr)
    /\ \A i, j \in 1..Len(p.defs) : i # j => p.defs[i].pattern.name # p.defs[j].pattern.name

BlockNames(p) == {p.defs[i].pattern.name : i \in 1..Len(p.defs)}
BodyOf(p, x) == p.defs[CHOOSE i \in 1..Len(p.defs) : p.defs[i].pattern.name = x].expr

\* x -> the siblings the body of x reads
SyntaxEdges(p) == [x \in BlockNames(p) |-> SyntaxReads(BodyOf(p, x)) \cap BlockNames(p)]

SyntaxComponent(p, x) ==
    {y \in BlockNames(p) :
        y = x \/ (y \in ReachPlus(x, SyntaxEdges(p)) /\ x \in ReachPlus(y, SyntaxEdges(p)))}

ValueBlock(p) ==
    /\ NamedBlock(p)
    /\ \A x \in BlockNames(p) : BodyOf(p, x).kind \notin {"Closure", "Apply"}
    /\ SyntaxReads(p.ret) \subseteq BlockNames(p)
    /\ p.ret.kind \notin {"Closure", "Apply"}

Local(x) == SymbolNew(scope_prefix, x)

CircularProblems == {i \in 1..Len(problems) : problems[i].kind = "CircularAssignment"}

NoDuplicates(q) == \A i, j \in 1..Len(q) : i # j => q[i] # q[j]

-----------------------------------------------------------------------------
(* C1: canonicalizing a def block leaves the caller's scope.idents as it   *)
(* was, during and after the call, so a name bound only inside the block   *)
(* does not resolve in a sibling node canonicalized afterwards.            *)

\* the node canonicalized after the block, and what it became
SiblingAfterBlock ==
    IF program.kind = "List" /\ Len(program.elems) = 2 /\ program.elems[1].kind = "Defs"
    THEN [ast |-> program.elems[2], can |-> result.expr.elems[2]]
    ELSE IF program.kind = "Operator" /\ program.left.kind = "Defs"
    THEN [ast |-> program.right, can |-> result.expr.args[2]]
    ELSE Null

C1_ScopeIsolation ==
    /\ \A k \in 1..Len(stack) :
          stack[k].kind = "Defs" => scopes[stack[k].caller].idents = stack[k].entry_idents
    /\ (pc \in {"call", "return", "defs", "done"}) => scopes[1].idents = declared
    /\ (pc = "done" /\ SiblingAfterBlock # Null /\ SiblingAfterBlock.ast.kind = "Var")
          => SiblingAfterBlock.can =
                CanonicalizeVar(ScopeNew(scope_prefix, declared),
                                SiblingAfterBlock.ast.path, SiblingAfterBlock.ast.name).expr

C1_Witness ==
    /\ pc = "done"
    /\ program = AList(<<ADefs(<<BodyOnly(PIdentifier("a"), One)>>, Read("a")), Read("a")>>)
    /\ declared = NoIdents
    /\ result.expr.elems[1].kind = "Define"
    /\ result.expr.elems[2] = ERuntimeError([kind |-> "UnrecognizedConstant",
                                             ident |-> Unqualified("a")])

ClosureCycleBlock(p) ==
    /\ NamedBlock(p)
    /\ \E x \in BlockNames(p) : OnCycle(x, SyntaxEdges(p))
    /\ \A x \in BlockNames(p) : OnCycle(x, SyntaxEdges(p)) => BodyOf(p, x).kind = "Closure"
    /\ p.ret.kind = "Var"

C3_ClosureCycleIsDefine ==
    (Terminal /\ ClosureCycleBlock(program))
    => /\ pc = "done"
       /\ result.expr.kind = "Define"
       /\ CircularProblems = {}

(* C4: in every Define that can_defs returns, a binding that is a direct   *)
(* local successor of a sibling comes before that sibling.                 *)
PositionIn(assignments, symbol) ==
    {k \in 1..Len(assignments) : assignments[k].pattern.symbol = symbol}

C4_DependencyOrder ==
    (pc = "return" /\ result.expr.kind = "Define")
    => /\ \A A, B \in DOMAIN returned.refs_by_assignment :
             B \in local_successors(returned.refs_by_assignment[A].refs, procedures).set
             => \E i \in PositionIn(result.expr.assignments, B) :
                  \E j \in PositionIn(result.expr.assignments, A) : i < j
       /\ (stack = <<>> /\ ValueBlock(program))
             => \A A \in BlockNames(program) : \A B \in SyntaxEdges(program)[A] :
                   \E i \in PositionIn(result.expr.assignments, Local(B)) :
                     \E j \in PositionIn(result.expr.assignments, Local(A)) : i < j

C4_Witness ==
    /\ pc = "return"
    /\ program = Block(<<"a", "b", "c">>, <<{"b"}, {"c"}, {}>>, Read("a"))
    /\ result.expr.kind = "Define"
    /\ [k \in 1..3 |-> result.expr.assignments[k].pattern.symbol]
          = <<Local("c"), Local("b"), Local("a")>>

(* C5: when a block's return expression has been canonicalized, each of   *)
(* its bindings gets exactly one UnusedAssignment problem if its symbol is *)
(* not reachable from the return expression's locals along the recorded    *)
(* references of the bindings, and none if it is.                          *)
RecordedLocals(refs_by_assignment) ==
    [s \in DOMAIN refs_by_assignment |-> refs_by_assignment[s].refs.locals]

ReportsOf(added, h) ==
    {j \in 1..Len(added) : added[j] = [kind |-> "UnusedAssignment", ident |-> h.ident,
                                       region |-> h.region]}

C5_UnusedIsTransitive ==
    [][(ReturningTo("Defs") /\ Top.phase = "ret" /\ pc' = "defs")
       => LET f == Top
              added == SubSeq(problems', Len(problems) + 1, Len(problems'))
              used == ReachFrom(result.output.references.locals, {},
                                RecordedLocals(f.refs_by_assignment))
          IN /\ Len(problems') >= Len(problems)
             /\ SubSeq(problems', 1, Len(problems)) = problems
             /\ \A k \in 1..Len(f.assigned_idents) :
                   Cardinality(ReportsOf(added, f.assigned_idents[k]))
                      = IF f.assigned_idents[k].symbol \in used THEN 0 ELSE 1
             /\ \A j \in 1..Len(added) :
                   \E k \in 1..Len(f.assigned_idents) : j \in ReportsOf(added, f.assigned_idents[k])
      ]_vars

C5_Witness ==
    /\ pc = "done"
    /\ program = Block(<<"a", "b">>, <<{}, {"a"}>>, One)
    /\ problems = <<[kind |-> "UnusedAssignment", ident |-> Unqualified("a"), region |-> 1],
                    [kind |-> "UnusedAssignment", ident |-> Unqualified("b"), region |-> 2]>>

(* C6: for a binding f whose body is a closure that reads f, the           *)
(* references recorded for f's symbol have no f among their locals, and    *)
(* when the return expression reads f no UnusedAssignment is reported for  *)
(* f.  Violated: the Closure arm of canonicalize_expr panics.              *)
SelfRecursive(p) ==
    {x \in BlockNames(p) : BodyOf(p, x).kind = "Closure" /\ x \in SyntaxReads(BodyOf(p, x))}

C6_SelfRecursionExempt ==
    (Terminal /\ NamedBlock(program) /\ SelfRecursive(program) # {} /\ program.ret.kind = "Var")
    => /\ pc = "done"
       /\ \A x \in SelfRecursive(program) :
             /\ Local(x) \in DOMAIN returned.refs_by_assignment
             /\ Local(x) \notin returned.refs_by_assignment[Local(x)].refs.locals
             /\ x \in SyntaxReads(program.ret)
                  => \A i \in 1..Len(problems) :
                        ~(problems[i].kind = "UnusedAssignment"
                          /\ problems[i].ident = Unqualified(x))

(* C7: the identifier list of every CircularAssignment that can_defs       *)
(* reports begins with the alphabetically lowest identifier of the list.   *)
(* Violated: the list begins with the cycle member bound first.            *)
C7_CycleStartsAtLowest ==
    (pc = "return" /\ result.expr.kind = "RuntimeError"
       /\ result.expr.error.kind = "CircularAssignment")
    => \A k \in 1..Len(result.expr.error.idents) :
          NameIndex(result.expr.error.idents[1].name)
             <= NameIndex(result.expr.error.idents[k].name)

(* C8: sort_cyclic_idents returns a rotation of loc_idents: the same       *)
(* length, and every element followed by the element that followed it,     *)
(* cyclically, in loc_idents. It returns whenever one of ordered_idents is *)
(* in loc_idents.                                                          *)
IsRotation(L, M) ==
    /\ Len(L) = Len(M)
    /\ \E k \in 0..(Len(L) - 1) :
          \A i \in 1..Len(L) : M[i] = L[((i - 1 + k) % Len(L)) + 1]

C8_RotationOnly ==
    (pc = "fn_done")
    => /\ fn_out.panic <=> (Range(fn_in.ordered_idents) \cap Range(fn_in.loc_idents) = {})
       /\ ~fn_out.panic => IsRotation(fn_in.loc_idents, fn_out.idents)

C8_Witness ==
    /\ pc = "fn_done"
    /\ fn_in.loc_idents = <<Unqualified("c"), Unqualified("a"), Unqualified("b")>>
    /\ fn_in.ordered_idents = <<Unqualified("a"), Unqualified("b"), Unqualified("c")>>
    /\ fn_out = [panic |-> FALSE,
                 idents |-> <<Unqualified("a"), Unqualified("b"), Unqualified("c")>>]

(* C9: a Var that names, unqualified, an ident that is no key of the scope *)
(* while its home-qualified form is one becomes Var(Symbol::new(home, n)); *)
(* no problem is appended, and the symbol goes to references.globals and   *)
(* not to locals.                                                          *)
RetryCase ==
    /\ Calling("Var")
    /\ arg.expr.path = ""
    /\ Unqualified(arg.expr.name) \notin DOMAIN scopes[arg.scope].idents
    /\ Qualified(home, arg.expr.name) \in DOMAIN scopes[arg.scope].idents

C9_QualifiedRetry ==
    [][RetryCase
       => /\ pc' = "return"
          /\ result'.expr = EVar(SymbolNew(home, arg.expr.name))
          /\ problems' = problems
          /\ result'.output.references =
                [locals |-> {}, calls |-> {}, globals |-> {SymbolNew(home, arg.expr.name)}]
      ]_vars

C9_Witness ==
    /\ pc = "done"
    /\ program = AVar("", "g")
    /\ DOMAIN declared = {Qualified(home, "g")}
    /\ result.expr = EVar(SymbolNew(home, "g"))
    /\ result.output.references.globals = {SymbolNew(home, "g")}
    /\ problems = <<>>

(* C10: a Var whose ident is no key of the scope, and whose home-qualified *)
(* form is none either when it is unqualified, becomes                     *)
(* RuntimeError(UnrecognizedConstant) carrying the ident as written, and   *)
(* one UnrecognizedConstant problem with that same ident is appended.      *)
Written(e) == IF e.path = "" THEN Unqualified(e.name) ELSE Qualified(e.path, e.name)

UnresolvedCase ==
    /\ Calling("Var")
    /\ Written(arg.expr) \notin DOMAIN scopes[arg.scope].idents
    /\ arg.expr.path = "" => Qualified(home, arg.expr.name) \notin DOMAIN scopes[arg.scope].idents

C10_FailureEchoesIdent ==
    [][UnresolvedCase
       => /\ pc' = "return"
          /\ result'.expr = ERuntimeError([kind |-> "UnrecognizedConstant",
                                           ident |-> Written(arg.expr)])
          /\ problems' = Append(problems, [kind |-> "UnrecognizedConstant",
                                           ident |-> Written(arg.expr)])
          /\ result'.output.references = ReferencesNew
      ]_vars

C10_Witness ==
    /\ pc = "done"
    /\ program = AVar("", "h")
    /\ Qualified(home, "g") \in DOMAIN declared
    /\ result.expr = ERuntimeError([kind |-> "UnrecognizedConstant", ident |-> Unqualified("h")])
    /\ problems = <<[kind |-> "UnrecognizedConstant", ident |-> Unqualified("h")]>>

(* C11: the step that ends a can_defs call returns either a Define and     *)
(* appends no problem, or RuntimeError(CircularAssignment) in place of the *)
(* whole block and appends exactly that CircularAssignment problem; the    *)
(* second happens exactly when the successor graph has a cycle.            *)
C11_DefineOrCycle ==
    [][(InDefs("sort") /\ pc' = "return")
       => LET f == Top
              edges == SuccessorEdges(f.refs_by_assignment, procedures)
              cyclic == \E n \in DOMAIN edges : OnCycle(n, edges)
              added == SubSeq(problems', Len(problems) + 1, Len(problems'))
          IN /\ Len(problems') >= Len(problems)
             /\ SubSeq(problems', 1, Len(problems)) = problems
             /\ result'.expr.kind \in {"Define", "RuntimeError"}
             /\ (result'.expr.kind = "Define") <=> ~cyclic
             /\ result'.expr.kind = "Define"
                   => /\ added = <<>>
                      /\ result'.expr.ret = f.ret_expr
             /\ result'.expr.kind = "RuntimeError"
                   => /\ result'.expr.error.kind = "CircularAssignment"
                      /\ added = <<result'.expr.error>>
                      /\ DOMAIN result'.expr = {"kind", "error"}
      ]_vars

C11_Witness ==
    /\ pc = "done"
    /\ program = Block(<<"a", "b", "c">>, <<{"b"}, {"a"}, {}>>, Read("a"))
    /\ result.expr.kind = "RuntimeError"
    /\ result.expr.error.kind = "CircularAssignment"
    /\ Cardinality(CircularProblems) = 1
    /\ \A i \in CircularProblems : Unqualified("c") \notin Range(problems[i].idents)

(* C12: a Define returned for a block whose body-bearing bindings have     *)
(* distinct names lists every one of those bindings exactly once, the      *)
(* bindings reported as UnusedAssignment included.                         *)
BodyBearing(defs) == {i \in 1..Len(defs) : defs[i].kind # "AnnotationOnly"}

C12_DefineKeepsEveryBinding ==
    (pc = "return" /\ result.expr.kind = "Define"
       /\ \A i, j \in BodyBearing(returned.defs) :
             i # j => returned.defs[i].pattern.name # returned.defs[j].pattern.name)
    => /\ Len(result.expr.assignments) = Cardinality(BodyBearing(returned.defs))
       /\ \A i \in BodyBearing(returned.defs) :
             LET symbol == ScopeSymbol(scopes[returned.scope], returned.defs[i].pattern.name)
             IN /\ Cardinality(PositionIn(result.expr.assignments, symbol)) = 1
                /\ \A k \in PositionIn(result.expr.assignments, symbol) :
                      result.expr.assignments[k].pattern = CanIdentifier(symbol)

C12_Witness ==
    /\ pc = "done"
    /\ program = Block(<<"a", "b", "c">>, <<{}, {"a"}, {}>>, Read("a"))
    /\ result.expr.kind = "Define"
    /\ Len(result.expr.assignments) = 3
    /\ {problems[i].ident : i \in 1..Len(problems)} = {Unqualified("b"), Unqualified("c")}
    /\ \A i \in 1..Len(problems) : problems[i].kind = "UnusedAssignment"

(* C13: in a binary operator, a list literal or a def block whose operands, *)
(* elements or binding bodies are identifiers, every identifier that does  *)
(* not resolve becomes RuntimeError(UnrecognizedConstant) and adds exactly *)
(* one UnrecognizedConstant problem, and every sibling has the node, the   *)
(* references and the problems it has on its own: the run goes on to the   *)
(* end and the whole is the composition of the parts, in order.            *)
\* what one identifier comes to under a scope's idents, taken on its own
OnItsOwn(idents, e) ==
    IF Written(e) \in DOMAIN idents
    THEN IF e.path = ""
         THEN [expr |-> EVar(Local(e.name)), problems |-> <<>>,
               references |-> [ReferencesNew EXCEPT !.locals = {Local(e.name)}]]
         ELSE [expr |-> EVar(SymbolNew(e.path, e.name)), problems |-> <<>>,
               references |-> [ReferencesNew EXCEPT !.globals = {SymbolNew(e.path, e.name)}]]
    ELSE IF e.path = "" /\ Qualified(home, e.name) \in DOMAIN idents
    THEN [expr |-> EVar(SymbolNew(home, e.name)), problems |-> <<>>,
          references |-> [ReferencesNew EXCEPT !.globals = {SymbolNew(home, e.name)}]]
    ELSE [expr |-> ERuntimeError([kind |-> "UnrecognizedConstant", ident |-> Written(e)]),
          problems |-> <<[kind |-> "UnrecognizedConstant", ident |-> Written(e)]>>,
          references |-> ReferencesNew]

RECURSIVE ProblemsInOrder(_, _)
ProblemsInOrder(idents, es) ==
    IF es = <<>> THEN <<>>
    ELSE OnItsOwn(idents, Head(es)).problems \o ProblemsInOrder(idents, Tail(es))

ReferencesOfAll(idents, es) ==
    [locals |-> UNION {OnItsOwn(idents, es[i]).references.locals : i \in 1..Len(es)},
     calls |-> {},
     globals |-> UNION {OnItsOwn(idents, es[i]).references.globals : i \in 1..Len(es)}]

AllVars(es) == \A i \in 1..Len(es) : es[i].kind = "Var"

C13_UnrecognizedIsLocal ==
    /\ (Terminal /\ program.kind = "Operator" /\ program.op # "Pizza"
          /\ AllVars(<<program.left, program.right>>))
       => /\ pc = "done"
          /\ result.expr.kind = "Call"
          /\ result.expr.args = <<OnItsOwn(declared, program.left).expr,
                                  OnItsOwn(declared, program.right).expr>>
          /\ problems = ProblemsInOrder(declared, <<program.left, program.right>>)
          /\ result.output.references
                = ReferencesOfAll(declared, <<program.left, program.right>>)
    /\ (Terminal /\ program.kind = "List" /\ program.elems # <<>> /\ AllVars(program.elems))
       => /\ pc = "done"
          /\ result.expr.kind = "List"
          /\ result.expr.elems
                = [i \in 1..Len(program.elems) |-> OnItsOwn(declared, program.elems[i]).expr]
          /\ problems = ProblemsInOrder(declared, program.elems)
          /\ result.output.references = ReferencesOfAll(declared, program.elems)
    /\ (InDefs("loop") /\ Len(stack) = 1 /\ Top.i > Len(Top.defs) /\ NamedBlock(program)
          /\ AllVars([i \in 1..Len(program.defs) |-> program.defs[i].expr]))
       => LET idents == scopes[Top.scope].idents
              bodies == [i \in 1..Len(program.defs) |-> program.defs[i].expr]
          IN /\ problems = ProblemsInOrder(idents, bodies)
             /\ \A i \in 1..Len(program.defs) :
                   LET symbol == Local(program.defs[i].pattern.name)
                   IN /\ Top.can_assignments_by_symbol[symbol].expr
                            = OnItsOwn(idents, bodies[i]).expr
                      /\ Top.refs_by_assignment[symbol].refs
                            = OnItsOwn(idents, bodies[i]).references

C13_Witness ==
    /\ pc = "done"
    /\ program = AList(<<AVar("", "h"), AVar("", "g")>>)
    /\ DOMAIN declared = {Qualified(home, "g")}
    /\ result.expr.elems = <<ERuntimeError([kind |-> "UnrecognizedConstant",
                                            ident |-> Unqualified("h")]),
                             EVar(SymbolNew(home, "g"))>>
    /\ problems = <<[kind |-> "UnrecognizedConstant", ident |-> Unqualified("h")]>>
    /\ result.output.references.globals = {SymbolNew(home, "g")}

(* C14: a literal whose underscore-stripped text does not parse into a     *)
(* signed 64-bit integer in its radix becomes a RuntimeError of the        *)
(* variant of its kind carrying the raw text, with the constraint True and *)
(* one RuntimeError problem with the same error; one that parses becomes   *)
(* Int with a constraint other than True and no problem.                   *)
RadixOf(kind) ==
    CASE kind = "Int" -> 10 [] kind = "HexInt" -> 16 [] kind = "OctalInt" -> 8 [] OTHER -> 2

VariantOf(kind) ==
    CASE kind = "Int" -> "IntOutsideRange" [] kind = "HexInt" -> "InvalidHex"
      [] kind = "OctalInt" -> "InvalidOctal" [] OTHER -> "InvalidBinary"

Degrades(kind, raw, out) ==
    IF from_str_radix(StripUnderscores(raw), RadixOf(kind)).ok
    THEN /\ out.answer.kind = "Int"
         /\ out.constraint # CTrue
         /\ out.problems = <<>>
    ELSE /\ out.answer = ERuntimeError([kind |-> VariantOf(kind), raw |-> raw])
         /\ out.constraint = CTrue
         /\ out.problems = <<RuntimeProblem([kind |-> VariantOf(kind), raw |-> raw])>>

C14_LiteralFailureDegrades ==
    (pc = "fn_done" /\ fn_in.fn = "literal")
    => /\ Degrades(fn_in.kind, fn_in.raw, fn_out.plain)
       /\ Degrades(fn_in.kind, fn_in.marked, fn_out.marked)

C14_Witness ==
    /\ pc = "fn_done"
    /\ fn_in.fn = "literal"
    /\ fn_in.kind = "HexInt"
    /\ fn_in.raw = <<"8", "0", "0", "0", "0", "0", "0", "0", "0", "0", "0", "0", "0", "0", "0", "0">>
    /\ fn_out.plain.answer = ERuntimeError([kind |-> "InvalidHex", raw |-> fn_in.raw])
    /\ fn_out.plain.constraint = CTrue
    /\ Len(fn_out.plain.problems) = 1

(* C15: a literal text with underscores put in at any places has the       *)
(* outcome of the text without them: the same Int value when that parses,  *)
(* and a failure exactly when that fails.                                  *)
C15_UnderscoresKeepValue ==
    (pc = "fn_done" /\ fn_in.fn = "literal")
    => /\ fn_out.marked.answer.kind = fn_out.plain.answer.kind
       /\ fn_out.plain.answer.kind = "Int" => fn_out.marked.answer = fn_out.plain.answer
       /\ fn_out.marked.constraint = fn_out.plain.constraint
       /\ Len(fn_out.marked.problems) = Len(fn_out.plain.problems)

C15_Witness ==
    /\ pc = "fn_done"
    /\ fn_in.fn = "literal"
    /\ fn_in.kind = "Int"
    /\ fn_in.raw = <<"1", "0">>
    /\ fn_in.marked = <<"1", "_", "_", "0", "_", "_">>
    /\ fn_out.plain.answer = EInt([neg |-> FALSE, mag |-> <<1, 0>>, radix |-> 10])
    /\ fn_out.marked.answer = fn_out.plain.answer

(* C16: References::union is commutative and associative, unioning a      *)
(* value with itself gives that value, and References::new() is neutral.   *)
C16_UnionLaws ==
    (pc = "fn_done" /\ fn_in.fn = "union")
    => /\ fn_out.rs = fn_out.sr
       /\ fn_out.rs_t = fn_out.r_st
       /\ fn_out.rr = fn_in.r
       /\ fn_out.r_new = fn_in.r
       /\ fn_out.new_r = fn_in.r

C16_Witness ==
    /\ pc = "fn_done"
    /\ fn_in.fn = "union"
    /\ fn_in.r = [locals |-> {SymbolNew(home, "f")}, calls |-> {}, globals |-> {}]
    /\ fn_in.s = [locals |-> {}, calls |-> {SymbolNew(home, "f")},
                  globals |-> {SymbolNew(home, "g")}]
    /\ fn_in.t = ReferencesNew
    /\ fn_out.rs = [locals |-> {SymbolNew(home, "f")},
                    calls |-> {SymbolNew(home, "f")},
                    globals |-> {SymbolNew(home, "g")}]
    /\ fn_out.sr = fn_out.rs

(* C17: canonicalizing `left |> right` ends with a Call node and an Output  *)
(* whose tail_call is the symbol of the right-hand side when that is a Var *)
(* (or a Call headed by a Var), and None otherwise.  Violated: the Pizza   *)
(* branch of the Operator arm panics.                                      *)
C17_PizzaTailCall ==
    (Terminal /\ program.kind = "Operator" /\ program.op = "Pizza"
       /\ program.left.kind \in {"Int", "Var"} /\ program.right.kind = "Var")
    => /\ pc = "done"
       /\ result.expr.kind = "Call"
       /\ result.output.tail_call
             = IF OnItsOwn(declared, program.right).expr.kind = "Var"
               THEN OnItsOwn(declared, program.right).expr.symbol
               ELSE None

(* C18: from the moment can_defs has set up a block, every identifier its  *)
(* patterns bind is a key of the block's scope, so an unqualified name of  *)
(* a binding of an enclosing block, written before or after the reader,    *)
(* resolves to that binding's symbol and adds no problem.                  *)
BoundBy(frame) ==
    IF frame.kind = "Defs"
    THEN {frame.defs[i].pattern.name :
            i \in {j \in BodyBearing(frame.defs) : frame.defs[j].pattern.kind = "Identifier"}}
    ELSE {}

C18_ForwardReferences ==
    [][/\ \A k \in 1..Len(stack) :
             \A x \in BoundBy(stack[k]) :
                Unqualified(x) \in DOMAIN scopes[stack[k].scope].idents
       /\ (Calling("Var") /\ arg.expr.path = ""
             /\ \E k \in 1..Len(stack) : arg.expr.name \in BoundBy(stack[k]))
          => /\ pc' = "return"
             /\ result'.expr = EVar(Local(arg.expr.name))
             /\ problems' = problems
             /\ result'.output.references.locals = {Local(arg.expr.name)}
      ]_vars

C18_Witness ==
    /\ pc = "done"
    /\ program = Block(<<"a", "b">>, <<{"b"}, {}>>, Read("a"))
    /\ problems = <<>>
    /\ result.expr.kind = "Define"
    /\ \E k \in 1..2 :
          /\ result.expr.assignments[k].pattern = CanIdentifier(Local("a"))
          /\ result.expr.assignments[k].expr = EVar(Local("b"))

(* C19: no can_defs call hits the unreachable!() of references_from_local  *)
(* or the unwrap() of the successors closure.  Violated: a block that      *)
(* reads a local bound outside it looks that local up in its own           *)
(* refs_by_assignment.                                                     *)
C19_GraphLookupsNeverMiss ==
    pc = "panic"
    => panic_msg \notin {"unreachable!() in references_from_local",
                         "unwrap on None: successors"}

-----------------------------------------------------------------------------
(* C20: the reference walk terminates on cyclic graphs.  On every          *)
(* refs_by_assignment map and procedure map, cyclic ones included, a call  *)
(* of references_from_local / references_from_call returns without being   *)
(* cut off, having followed at most one symbol more than the maps have     *)
(* unvisited keys: a symbol followed below the first one was not in        *)
(* visited when the walk reached it and is never followed a second time,   *)
(* and visited afterwards holds every symbol followed.                     *)

C20_WalkTerminates ==
    (pc = "fn_done" /\ fn_in.fn = "walk") =>
        LET t == fn_out.followed
            keys == DOMAIN fn_in.refs_by_assignment \cup DOMAIN fn_in.procedures
        IN /\ Len(t) <= MaxWalk
           /\ Len(t) <= 1 + Cardinality(keys \ fn_in.visited)
           /\ \A i \in 2..Len(t) :
                 t[i] \notin fn_in.visited \cup {t[j] : j \in 1..(i - 1)}
           /\ \A i \in 1..Len(t) : t[i] \in keys
           /\ fn_in.visited \cup {t[i] : i \in 1..Len(t)} = fn_out.visited

\* two bindings that read each other, the second also a procedure that calls
\* itself and closes over the first: the walk from the first follows both once
C20_Witness ==
    LET f == SymbolNew(home, "f")
        g == SymbolNew(home, "g")
    IN /\ pc = "fn_done"
       /\ fn_in.fn = "walk"
       /\ fn_in.from = "local"
       /\ fn_in.symbol = f
       /\ fn_in.visited = {}
       /\ DOMAIN fn_in.refs_by_assignment = {f, g}
       /\ fn_in.refs_by_assignment[f].refs.locals = {f, g}
       /\ fn_in.refs_by_assignment[f].refs.calls = {g}
       /\ fn_in.refs_by_assignment[g].refs.locals = {f}
       /\ DOMAIN fn_in.procedures = {g}
       /\ fn_in.procedures[g].references.locals = {f}
       /\ fn_in.procedures[g].references.calls = {g}
       /\ fn_out.followed = <<f, g>>
       /\ ~fn_out.panic

-----------------------------------------------------------------------------
(* C21: the problem list is append-only.  Every step of                    *)
(* canonicalize_declaration leaves env.problems as it was or adds problems *)
(* at its end: none is removed, replaced or moved, so the list handed back *)
(* holds every problem recorded, in the order recorded.                    *)

C21_ProblemsAppendOnly ==
    [][/\ Len(problems') >= Len(problems)
       /\ SubSeq(problems', 1, Len(problems)) = problems]_vars

\* a run that recorded an unrecognized identifier in a body and, after it,
\* an unused binding of the same block
C21_Witness ==
    /\ pc = "done"
    /\ \E i, j \in 1..Len(problems) :
          /\ i < j
          /\ problems[i].kind = "UnrecognizedConstant"
          /\ problems[j].kind = "UnusedAssignment"

-----------------------------------------------------------------------------
(* C22: when can_defs binds an identifier to a body that canonicalized to  *)
(* a FunctionPointer, the procedure stored under the binding's assigned    *)
(* symbol has is_self_tail_recursive = TRUE exactly when the body output's *)
(* tail_call is that assigned symbol, and FALSE when it is None or another *)
(* symbol.                                                                 *)

C22_SelfTailRecursiveFlag ==
    (pc = "fn_done" /\ fn_in.fn = "bind" /\ fn_in.can_expr.kind = "FunctionPointer")
    => /\ ~fn_out.panic
       /\ fn_in.assigned_symbol \in DOMAIN fn_out.procedures
       /\ fn_out.procedures[fn_in.assigned_symbol].is_self_tail_recursive
            = (fn_in.can_output.tail_call = fn_in.assigned_symbol)
       /\ fn_in.can_output.tail_call = None
            => ~fn_out.procedures[fn_in.assigned_symbol].is_self_tail_recursive

\* f bound to a closure whose body ends in a call of f: flagged
C22_Witness ==
    /\ pc = "fn_done"
    /\ fn_in.fn = "bind"
    /\ fn_in.can_expr.kind = "FunctionPointer"
    /\ fn_in.can_output.tail_call = fn_in.assigned_symbol
    /\ fn_out.procedures[fn_in.assigned_symbol].is_self_tail_recursive

(* C23: naming a closure moves its procedure to another key.  When the     *)
(* body of `f = ...` canonicalized to FunctionPointer(g) and the assigned  *)
(* symbol s is not yet a key, afterwards env.procedures has no entry under *)
(* g, has under s the procedure that was under g with name = f, has as     *)
(* many entries as before and every other entry as it was, and the         *)
(* binding's expression is Var(s).  A body that is no FunctionPointer      *)
(* leaves env.procedures as it was.                                        *)

-----------------------------------------------------------------------------
(* C24: the states a body-bearing binding of a def block goes through.     *)

\* the states the binding at place i has been through, oldest first
StatesOf(frame, i) ==
    LET es == SelectSeq(frame.events, LAMBDA e : e.def = i)
    IN [k \in 1..Len(es) |-> es[k].state]

IsPrefix(a, b) == Len(a) <= Len(b) /\ SubSeq(b, 1, Len(a)) = a

\* every binding of the block has gone through `first`, then `second`, then
\* ClosureRenamed or not, then ReferencesRecorded, as far as it has got
Follows(frame, first, second) ==
    \A i \in BodyBearing(frame.defs) :
       \/ IsPrefix(StatesOf(frame, i), <<first, second, "ReferencesRecorded">>)
       \/ IsPrefix(StatesOf(frame, i), <<first, second, "ClosureRenamed", "ReferencesRecorded">>)

\* the log agrees with what the block holds: nothing for the binding whose
\* body is being canonicalized or that is still to come, an entry in
\* refs_by_assignment and in can_assignments_by_symbol for every one done
Progress(frame) ==
    \A i \in BodyBearing(frame.defs) :
       LET symbol == ScopeSymbol(scopes[frame.scope], frame.defs[i].pattern.name)
       IN IF i < frame.i
          THEN /\ Len(StatesOf(frame, i)) >= 3
               /\ symbol \in DOMAIN frame.refs_by_assignment
               /\ symbol \in DOMAIN frame.can_assignments_by_symbol
          ELSE StatesOf(frame, i) = <<>>

EveryBlock(P(_)) ==
    /\ \A k \in 1..Len(stack) : stack[k].kind = "Defs" => P(stack[k])
    /\ returned # Null => P(returned)

\* a block is sorted into Define or CircularAssignment only after every
\* binding is in refs_by_assignment and the return expression is done
ClassifiedLast ==
    /\ \A k \in 1..Len(stack) :
          (stack[k].kind = "Defs" /\ stack[k].phase # "sort")
          => \A j \in 1..Len(stack[k].events) :
                stack[k].events[j].state # "ReturnCanonicalized"
    /\ returned # Null
         => /\ returned.phase = "sort"
            /\ returned.i > Len(returned.defs)
            /\ \A i \in BodyBearing(returned.defs) :
                  \E j \in 1..Len(returned.events) :
                     returned.events[j] = [state |-> "ReferencesRecorded", def |-> i]
            /\ returned.events[Len(returned.events)].state = "ReturnCanonicalized"

-----------------------------------------------------------------------------
(* C25: the references of a block's Output are the return expression's     *)
(* own locals and calls and those reachable from them, a local through its *)
(* entry in refs_by_assignment and a call through its procedure, and       *)
(* nothing else.                                                           *)
(* Violated: the walk shares one visited set between locals and calls, so  *)
(* a closure first met as a value is not followed when a procedure calls   *)
(* it.                                                                     *)

\* one round of following: the references of every local and call at hand
Followed(refs, refs_by_assignment, procs) ==
    LET of_locals == {refs_by_assignment[l].refs : l \in refs.locals \cap DOMAIN refs_by_assignment}
        of_calls == {procs[c].references : c \in refs.calls \cap DOMAIN procs}
        found == of_locals \cup of_calls
    IN [locals |-> refs.locals \cup UNION {r.locals : r \in found},
        calls |-> refs.calls \cup UNION {r.calls : r \in found},
        globals |-> refs.globals \cup UNION {r.globals : r \in found}]

RECURSIVE Reachable(_, _, _)
Reachable(refs, refs_by_assignment, procs) ==
    LET next == Followed(refs, refs_by_assignment, procs)
    IN IF next = refs THEN refs ELSE Reachable(next, refs_by_assignment, procs)

-----------------------------------------------------------------------------
(* C26: the Output of a non-empty list literal of n elements.  The         *)
(* elements are canonicalized left to right; the references are the union  *)
(* of the references of all n elements; tail_call is None; the constraint  *)
(* is an And of exactly 2n + 1 constraints, a pair per element and last    *)
(* the Eq of the list type with the expected type.                         *)

C26_ListOutput ==
    [][/\ (Calling("List") /\ arg.expr.elems # <<>>)
          => /\ pc' = "call"
             /\ arg'.expr = arg.expr.elems[1]
             /\ stack'[Len(stack')].references = ReferencesNew
       /\ ReturningTo("List")
          => LET f == Top
                 n == Len(f.elems)
                 sofar == [locals |-> f.references.locals \cup result.output.references.locals,
                           calls |-> f.references.calls \cup result.output.references.calls,
                           globals |-> f.references.globals \cup result.output.references.globals]
             IN /\ Len(f.can_elems) = f.i - 1
                /\ Len(f.constraints) = 2 * (f.i - 1)
                /\ IF f.i < n
                   THEN /\ pc' = "call"
                        /\ arg'.expr = f.elems[f.i + 1]
                        /\ stack'[Len(stack')].references = sofar
                   ELSE /\ pc' = "return"
                        /\ result'.expr = EList(Append(f.can_elems, result.expr))
                        /\ result'.output.references = sofar
                        /\ result'.output.tail_call = None
                        /\ result'.output.constraint.kind = "And"
                        /\ Len(result'.output.constraint.cs) = 2 * n + 1
                        /\ SubSeq(result'.output.constraint.cs, 1, 2 * (n - 1)) = f.constraints
                        /\ result'.output.constraint.cs[2 * n - 1] = CEq("ElemInList")
                        /\ result'.output.constraint.cs[2 * n] = result.output.constraint
                        /\ result'.output.constraint.cs[2 * n + 1] = CEq("ListType")
      ]_vars

\* a list of three elements whose first and last read the same symbol
C26_Witness ==
    /\ pc = "return"
    /\ result.expr.kind = "List"
    /\ Len(result.expr.elems) = 3
    /\ result.expr.elems[1].kind = "Var"
    /\ result.expr.elems[3] = result.expr.elems[1]
    /\ result.output.references.globals # {}
    /\ result.output.tail_call = None
    /\ Len(result.output.constraint.cs) = 7

-----------------------------------------------------------------------------
(* C27: a def block is a tail call exactly when its return expression is:  *)
(* the tail_call of the block's Output is the tail_call of the return      *)
(* expression's Output, whatever the tail_call of the bindings' bodies.    *)

C27_BlockTailCallIsReturns ==
    (pc = "fn_done" /\ fn_in.fn = "bind" /\ ~fn_out.panic)
    => /\ fn_out.output.tail_call = fn_in.ret_tail_call
       /\ fn_out.output.references = fn_out.references

\* the body of the binding ends in a call of f, the return expression in a
\* call of g: the block's tail call is g
C27_Witness ==
    /\ pc = "fn_done"
    /\ fn_in.fn = "bind"
    /\ ~fn_out.panic
    /\ fn_in.can_output.tail_call = SymbolNew(home, "f")
    /\ fn_in.ret_tail_call = SymbolNew(home, "g")
    /\ fn_out.output.tail_call = SymbolNew(home, "g")

-----------------------------------------------------------------------------
(* C28: the successor function terminates.  On every procedure map, one    *)
(* where a procedure's calls hold itself or two procedures call each other *)
(* included, local_successors returns.                                     *)
(* Violated: call_successors follows a procedure's calls with no record of *)
(* the procedures it is already in.                                        *)

-----------------------------------------------------------------------------
(* C30: a block's own bindings do not leak through its Output.  The        *)
(* references of the Output can_defs returns hold no symbol the block      *)
(* itself binds, and so the references an enclosing block records for a    *)
(* binding hold no symbol bound only by a block inside that binding's      *)
(* body.                                                                   *)
(* Violated: the block's own symbols that the return expression reaches    *)
(* stay in the Output.                                                     *)

OwnSymbols(frame) ==
    {frame.assigned_idents[k].symbol : k \in 1..Len(frame.assigned_idents)}

C30_OwnBindingsStayInside ==
    [][(InDefs("sort") /\ pc' = "return")
       => /\ result'.output.references.locals \cap OwnSymbols(Top) = {}
          /\ result'.output.references.calls \cap OwnSymbols(Top) = {}
      ]_vars

=============================================================================
